---- MODULE Spec2Model ----
(***************************************************************************)
(* Model of contract_loader.py: decimal formatting, the tier parser and    *)
(* canonicalizer, the pricing payload builder and the price-change         *)
(* amendment reconciler working against the remote pricing ledger.         *)
(*                                                                         *)
(* Text (CSV cells, wire strings) is a sequence of one-character strings.  *)
(* A Decimal is sign and magnitude, as Python's decimal.Decimal is:        *)
(*   [neg, i, h, l, s]  =  (-1)^neg * (i + h*10^-5 + l*10^-10 + s*10^-12)  *)
(* with h, l in 0..99999 and s in 0..99, so twelve fractional digits are   *)
(* carried exactly: ten for PRICING_DECIMAL_PLACES and two beyond it.      *)
(* A calendar date is its day number; timedelta(days=1) is 1.              *)
(*                                                                         *)
(* Seven specifications share the variables:                               *)
(*   Spec          one price-change group spliced into a ledger that the   *)
(*                 contract flow filled;                                   *)
(*   SpecTiers     build_canonical_tiers_from_row applied to a pricing     *)
(*                 row;                                                    *)
(*   SpecDec       format_decimal, then parse_pricing_band, applied to a   *)
(*                 decimal value;                                          *)
(*   SpecCreate    main's create flow over the contract groups of a file,  *)
(*                 one remote call a step;                                 *)
(*   SpecQuantity  handle_quantity_change over the rows of a quantity      *)
(*                 amendment file, one remote call a step;                 *)
(*   SpecPayloads  build_pricing_payloads_from_rows over the rows of a     *)
(*                 product group, one row a step;                          *)
(*   SpecAmendments  process_amendments over the rows of an amendment      *)
(*                 file: the quantity rows, then the price-change groups.  *)
(***************************************************************************)
EXTENDS Integers, Sequences, FiniteSets, TLC

(***************************************************************************)
(* Text helpers                                                            *)
(***************************************************************************)
DigitChars == <<"0", "1", "2", "3", "4", "5", "6", "7", "8", "9">>

IsDigit(c) == \E d \in 1..10 : DigitChars[d] = c

DigitVal(c) == (CHOOSE d \in 1..10 : DigitChars[d] = c) - 1

RECURSIVE NatText(_)
NatText(n) ==
    IF n < 10 THEN <<DigitChars[n + 1]>>
    ELSE NatText(n \div 10) \o <<DigitChars[(n % 10) + 1]>>

\* a variant of PadText that drops the leading zeros
Unpadded(n, w) == NatText(n)

RECURSIVE PadText(_, _)
PadText(n, w) ==
    IF w = 0 THEN <<>>
    ELSE PadText(n \div 10, w - 1) \o <<DigitChars[(n % 10) + 1]>>

RECURSIVE NatVal(_)
NatVal(t) ==
    IF t = <<>> THEN 0
    ELSE 10 * NatVal(SubSeq(t, 1, Len(t) - 1)) + DigitVal(t[Len(t)])

AllDigits(t) == \A k \in 1..Len(t) : IsDigit(t[k])

RECURSIVE rstrip(_, _)
rstrip(t, c) ==
    IF t # <<>> /\ t[Len(t)] = c THEN rstrip(SubSeq(t, 1, Len(t) - 1), c)
    ELSE t

Contains(t, c) == \E k \in 1..Len(t) : t[k] = c

IndexOf(t, c) == CHOOSE k \in 1..Len(t) : t[k] = c /\ \A j \in 1..(k - 1) : t[j] # c

\* str.split(sep) for a one-character separator
RECURSIVE Split(_, _)
Split(t, c) ==
    IF ~Contains(t, c) THEN <<t>>
    ELSE <<SubSeq(t, 1, IndexOf(t, c) - 1)>>
         \o Split(SubSeq(t, IndexOf(t, c) + 1, Len(t)), c)

PadRight(t, w) == [k \in 1..w |-> IF k <= Len(t) THEN t[k] ELSE "0"]

(***************************************************************************)
(* Decimal                                                                 *)
(***************************************************************************)
Dec(neg, i, h, l, s) == [neg |-> neg, i |-> i, h |-> h, l |-> l, s |-> s]

\* Python's None where a Decimal is optional (an unlimited upper bound)
None == [neg |-> FALSE, i |-> -1, h |-> 0, l |-> 0, s |-> 0]

Zero == Dec(FALSE, 0, 0, 0, 0)

IsZero(x) == x.i = 0 /\ x.h = 0 /\ x.l = 0 /\ x.s = 0

MagLt(x, y) ==
    \/ x.i < y.i
    \/ x.i = y.i /\ x.h < y.h
    \/ x.i = y.i /\ x.h = y.h /\ x.l < y.l
    \/ x.i = y.i /\ x.h = y.h /\ x.l = y.l /\ x.s < y.s

MagEq(x, y) == x.i = y.i /\ x.h = y.h /\ x.l = y.l /\ x.s = y.s

\* Decimal.__eq__: numeric equality, -0 == 0
DecEq(x, y) == MagEq(x, y) /\ (x.neg = y.neg \/ IsZero(x))

\* Decimal.__lt__
DecLt(x, y) ==
    IF IsZero(x) /\ IsZero(y) THEN FALSE
    ELSE IF x.neg /\ ~y.neg THEN TRUE
    ELSE IF ~x.neg /\ y.neg THEN FALSE
    ELSE IF x.neg THEN MagLt(y, x)
    ELSE MagLt(x, y)

\* magnitude plus one unit of 10^-10, carrying into h and i
MagInc(x) ==
    IF x.l < 99999 THEN [x EXCEPT !.l = x.l + 1]
    ELSE IF x.h < 99999 THEN [x EXCEPT !.l = 0, !.h = x.h + 1]
    ELSE [x EXCEPT !.l = 0, !.h = 0, !.i = x.i + 1]

\* magnitude minus one unit of 10^-10, for a magnitude of at least 10^-10
MagDec(x) ==
    IF x.l > 0 THEN [x EXCEPT !.l = x.l - 1]
    ELSE IF x.h > 0 THEN [x EXCEPT !.l = 99999, !.h = x.h - 1]
    ELSE [x EXCEPT !.l = 99999, !.h = 99999, !.i = x.i - 1]

\* value + TIER_INCREMENT, TIER_INCREMENT = Decimal("0.0000000001")
AddIncrement(x) ==
    IF ~x.neg THEN MagInc(x)
    ELSE IF x.i = 0 /\ x.h = 0 /\ x.l = 0
         THEN Dec(FALSE, 0, 0, IF x.s = 0 THEN 1 ELSE 0, (100 - x.s) % 100)
    ELSE LET d == MagDec(x) IN IF IsZero(d) THEN [d EXCEPT !.neg = FALSE] ELSE d

\* value.quantize(PRICING_DECIMAL_PLACES): ten places, ROUND_HALF_EVEN
Quantize10(x) ==
    LET up == x.s > 50 \/ (x.s = 50 /\ x.l % 2 = 1)
        cut == [x EXCEPT !.s = 0]
    IN  IF up THEN MagInc(cut) ELSE cut

\* value == value.to_integral()
IsIntegral(x) == x.h = 0 /\ x.l = 0 /\ x.s = 0

\* Decimal(text) accepts [sign] digits [. digits] with at least one digit
Unsigned(t) == IF t # <<>> /\ t[1] \in {"-", "+"} THEN SubSeq(t, 2, Len(t)) ELSE t

IntChars(u) == IF Contains(u, ".") THEN SubSeq(u, 1, IndexOf(u, ".") - 1) ELSE u

FracChars(u) == IF Contains(u, ".") THEN SubSeq(u, IndexOf(u, ".") + 1, Len(u)) ELSE <<>>

\* ip and fp are the digits before and after the point, f is fp padded to the
\* twelve places a value of the model carries
DecimalParts(neg, ip, fp, f) ==
    IF AllDigits(ip) /\ AllDigits(fp) /\ Len(ip) + Len(fp) > 0 /\ Len(fp) <= 12
    THEN [ok |-> TRUE,
          value |-> Dec(neg, NatVal(ip), NatVal(SubSeq(f, 1, 5)), NatVal(SubSeq(f, 6, 10)),
                        NatVal(SubSeq(f, 11, 12)))]
    ELSE [ok |-> FALSE, value |-> Zero]

DecimalSplit(t, u) ==
    DecimalParts(t # <<>> /\ t[1] = "-", IntChars(u), FracChars(u), PadRight(FracChars(u), 12))

\* Decimal(text): ok is FALSE where Decimal raises, value is the number otherwise
Decimal(t) == DecimalSplit(t, Unsigned(t))

SignText(x) == IF x.neg THEN <<"-">> ELSE <<>>

\* f"{quantized:.10f}"
FixedText10(q) == SignText(q) \o NatText(q.i) \o <<".">> \o PadText(q.h, 5) \o PadText(q.l, 5)

\* text or "0"
OrZeroText(text) == IF text = <<>> THEN <<"0">> ELSE text

format_decimal(value) ==
    IF IsIntegral(value) THEN SignText(value) \o NatText(value.i)
    ELSE OrZeroText(rstrip(rstrip(FixedText10(Quantize10(value)), "0"), "."))

(***************************************************************************)
(* Tier parser and canonicalizer                                           *)
(***************************************************************************)
\* one numbered slot of the structured encoding: tierN_from_qty, tierN_to_qty, tierN_rate
Slot(f, t, r) == [from_qty |-> f, to_qty |-> t, rate |-> r]

Tier(lower, upper, rate) == [lower |-> lower, upper |-> upper, rate |-> rate]

UNLIMITED_TIER_SENTINEL == Dec(TRUE, 1, 0, 0, 0)

BandOrNone(text, numeric_value) ==
    IF text = <<>> THEN None
    ELSE IF ~numeric_value.ok THEN None
    ELSE IF DecEq(numeric_value.value, UNLIMITED_TIER_SENTINEL) THEN None
    ELSE numeric_value.value

parse_pricing_band(value) == BandOrNone(value, Decimal(value))

\* a variant that keeps previous_upper + TIER_INCREMENT as it is
ChainedUnquantized(sum, expected_lower) == sum

\* the lower bound of a slot without a from-quantity that follows a bounded tier:
\* previous_upper + TIER_INCREMENT, replaced by its quantized value when they differ
ChainedLower(sum, expected_lower) == IF DecEq(sum, expected_lower) THEN sum ELSE expected_lower

\* a variant that replaces an explicit from-quantity by the expected lower bound
LowerCorrected(previous_upper, lower_raw, parsed_lower) ==
    IF previous_upper = None THEN (IF lower_raw # <<>> THEN parsed_lower ELSE Zero)
    ELSE Quantize10(AddIncrement(previous_upper))

LowerValue(previous_upper, lower_raw, parsed_lower) ==
    IF lower_raw # <<>> THEN parsed_lower
    ELSE IF previous_upper = None THEN Zero
    ELSE ChainedLower(AddIncrement(previous_upper), Quantize10(AddIncrement(previous_upper)))

UpperValue(upper_raw, parsed_upper) ==
    IF upper_raw = <<>> THEN None
    ELSE IF DecEq(parsed_upper, UNLIMITED_TIER_SENTINEL) THEN None
    ELSE parsed_upper

\* a variant of the break that passes over the slot and goes on with the next one
SkipSlot(acc) == [acc EXCEPT !.seen_any = TRUE]

Break(acc) == [acc EXCEPT !.seen_any = TRUE, !.stop = TRUE]

\* the end of the loop body: the bounds check, the append, the break after an unlimited tier
StructuredAppend(acc, lower_value, upper_value, rate_value) ==
    IF upper_value # None /\ DecLt(upper_value, lower_value) THEN Break(acc)
    ELSE [acc EXCEPT !.seen_any = TRUE,
                     !.tiers = Append(acc.tiers, Tier(lower_value, upper_value, rate_value)),
                     !.stop = (upper_value = None),
                     !.previous_upper = IF upper_value = None THEN acc.previous_upper
                                        ELSE upper_value]

\* the loop body for one slot, cell holding Decimal(...) of its three cells
StructuredSlot(acc, slot, cell) ==
    IF slot.from_qty = <<>> /\ slot.to_qty = <<>> /\ slot.rate = <<>> THEN acc
    ELSE IF slot.rate = <<>> \/ ~cell.rate.ok THEN Break(acc)
    ELSE IF slot.from_qty # <<>> /\ ~cell.from_qty.ok THEN Break(acc)
    ELSE IF slot.to_qty # <<>> /\ ~cell.to_qty.ok THEN Break(acc)
    ELSE StructuredAppend(acc,
             LowerValue(acc.previous_upper, slot.from_qty, cell.from_qty.value),
             UpperValue(slot.to_qty, cell.to_qty.value),
             cell.rate.value)

StructuredStep(acc, slot) ==
    StructuredSlot(acc, slot, [k \in {"from_qty", "to_qty", "rate"} |-> Decimal(slot[k])])

RECURSIVE StructuredLoop(_, _, _)
StructuredLoop(slots, index, acc) ==
    IF index > Len(slots) \/ acc.stop THEN acc
    ELSE StructuredLoop(slots, index + 1, StructuredStep(acc, slots[index]))

StructuredResult(acc) == IF ~acc.seen_any THEN <<>> ELSE acc.tiers

parse_structured_pricing_tiers(row) ==
    StructuredResult(StructuredLoop(row.slots, 1,
        [tiers |-> <<>>, previous_upper |-> None, seen_any |-> FALSE, stop |-> FALSE]))

\* one upper:rate entry of the legacy string, part holding its two sides parsed
LegacyPair(upper_part, part) ==
    IF upper_part # <<"-", "1">> /\ ~part[1].ok THEN <<>>
    ELSE IF ~part[2].ok THEN <<>>
    ELSE <<[upper |-> IF upper_part = <<"-", "1">> THEN None ELSE part[1].value,
            rate |-> part[2].value]>>

\* entry.split(":", 1)
SplitOnce(entry, k) == <<SubSeq(entry, 1, k - 1), SubSeq(entry, k + 1, Len(entry))>>

LegacySides(sides) == LegacyPair(sides[1], [k \in {1, 2} |-> Decimal(sides[k])])

\* the loop body: <<>> when the entry is skipped
LegacyEntry(entry) ==
    IF entry = <<>> THEN <<>>
    ELSE IF ~Contains(entry, ":") THEN <<>>
    ELSE LegacySides(SplitOnce(entry, IndexOf(entry, ":")))

\* a variant of the loop that ends at the first entry it cannot read
RECURSIVE LegacyStopAtBad(_)
LegacyStopAtBad(parts) ==
    IF parts = <<>> THEN <<>>
    ELSE IF Head(parts) # <<>> /\ LegacyEntry(Head(parts)) = <<>> THEN <<>>
    ELSE LegacyEntry(Head(parts)) \o LegacyStopAtBad(Tail(parts))

RECURSIVE LegacyLoop(_)
LegacyLoop(parts) ==
    IF parts = <<>> THEN <<>>
    ELSE LegacyEntry(Head(parts)) \o LegacyLoop(Tail(parts))

parse_legacy_pricing_tiers(raw_value) ==
    IF raw_value = <<>> THEN <<>> ELSE LegacyLoop(Split(raw_value, ";"))

\* the lower bound build_canonical_tiers_from_row derives for a tier without one
DerivedLower(canonical_tiers) ==
    Quantize10(IF canonical_tiers = <<>> THEN Zero
               ELSE IF canonical_tiers[Len(canonical_tiers)].upper # None
                    THEN AddIncrement(canonical_tiers[Len(canonical_tiers)].upper)
               ELSE canonical_tiers[Len(canonical_tiers)].lower)

\* the structured branch of build_canonical_tiers_from_row
RECURSIVE CanonicalFromStructured(_, _)
CanonicalFromStructured(structured_tiers, canonical_tiers) ==
    IF structured_tiers = <<>> THEN canonical_tiers
    ELSE CanonicalFromStructured(Tail(structured_tiers),
             Append(canonical_tiers,
                    Tier(IF Head(structured_tiers).lower # None THEN Head(structured_tiers).lower
                         ELSE DerivedLower(canonical_tiers),
                         Head(structured_tiers).upper, Head(structured_tiers).rate)))

\* a variant of the legacy branch that goes on after an unlimited tier
RECURSIVE LegacyWithoutBreak(_, _)
LegacyWithoutBreak(legacy_tiers, lower_band_value) ==
    IF legacy_tiers = <<>> THEN <<>>
    ELSE <<Tier(lower_band_value, Head(legacy_tiers).upper, Head(legacy_tiers).rate)>>
         \o LegacyWithoutBreak(Tail(legacy_tiers),
                IF Head(legacy_tiers).upper = None THEN lower_band_value
                ELSE Quantize10(AddIncrement(Head(legacy_tiers).upper)))

\* a variant of the legacy branch that chains the lower bounds without rounding them
RECURSIVE LegacyUnquantized(_, _)
LegacyUnquantized(legacy_tiers, lower_band_value) ==
    IF legacy_tiers = <<>> THEN <<>>
    ELSE <<Tier(lower_band_value, Head(legacy_tiers).upper, Head(legacy_tiers).rate)>>
         \o (IF Head(legacy_tiers).upper = None THEN <<>>
             ELSE LegacyUnquantized(Tail(legacy_tiers), AddIncrement(Head(legacy_tiers).upper)))

\* the legacy branch: lower bounds chained from the previous upper bound
RECURSIVE CanonicalFromLegacy(_, _)
CanonicalFromLegacy(legacy_tiers, lower_band_value) ==
    IF legacy_tiers = <<>> THEN <<>>
    ELSE <<Tier(lower_band_value, Head(legacy_tiers).upper, Head(legacy_tiers).rate)>>
         \o (IF Head(legacy_tiers).upper = None THEN <<>>
             ELSE CanonicalFromLegacy(Tail(legacy_tiers),
                      Quantize10(AddIncrement(Head(legacy_tiers).upper))))

\* a variant without the fallback tier
WithoutFallback(canonical_tiers, rate_cell) == canonical_tiers

\* Decimal(str(parse_rate(value))): 0 for an empty or unparsable cell; the float
\* in between is exact for the rate cells of the rows here
RateOrZero(value, parsed) == IF value # <<>> /\ parsed.ok THEN parsed.value ELSE Zero

parse_rate(value) == RateOrZero(value, Decimal(value))

FallbackTiers(canonical_tiers, rate_cell) ==
    IF canonical_tiers # <<>> THEN canonical_tiers
    ELSE <<Tier(Zero, None, parse_rate(rate_cell))>>

CanonicalTiers(structured_tiers, row) ==
    IF structured_tiers # <<>> THEN CanonicalFromStructured(structured_tiers, <<>>)
    ELSE FallbackTiers(CanonicalFromLegacy(parse_legacy_pricing_tiers(row.tiers), Zero), row.rate)

build_canonical_tiers_from_row(row) == CanonicalTiers(parse_structured_pricing_tiers(row), row)

(***************************************************************************)
(* Dates.  A date cell is a text of one of four kinds: empty, a plain      *)
(* YYYY-MM-DD date, an ISO timestamp YYYY-MM-DDT..., or anything else.     *)
(***************************************************************************)
\* Python's None where a date is optional
NoDate == -1

EmptyCell == [kind |-> "empty", d |-> NoDate]
BadCell == [kind |-> "bad", d |-> NoDate]
DateCell(d) == [kind |-> "date", d |-> d]
IsoCell(d) == [kind |-> "iso", d |-> d]

\* strptime(value, "%Y-%m-%d") accepts the plain date only
parse_date(value, fallback, today) ==
    IF value.kind = "date" THEN value.d
    ELSE IF fallback # NoDate THEN fallback
    ELSE today

parse_optional_date(value) == IF value.kind = "date" THEN value.d ELSE NoDate

\* the text before the first "T" is parsed
parse_iso_to_date(value) == IF value.kind \in {"date", "iso"} THEN value.d ELSE NoDate

\* f"{d.isoformat()}T00:00:00.000Z", None when there is no date
IsoText(d) == IF d = NoDate THEN EmptyCell ELSE IsoCell(d)

\* a or b on two cells: the first one that is not empty
OrCell(a, b) == IF a.kind # "empty" THEN a ELSE b

(***************************************************************************)
(* Pricing payload builder                                                 *)
(***************************************************************************)
SortKeyLt(a, b) ==
    LET fa == IF a.upper = None THEN 1 ELSE 0
        fb == IF b.upper = None THEN 1 ELSE 0
    IN  fa < fb \/ (fa = fb /\ DecLt(a.lower, b.lower))

\* list.sort is stable: x goes after every element that is not greater than it
RECURSIVE InsertTier(_, _)
InsertTier(sorted, x) ==
    IF sorted = <<>> THEN <<x>>
    ELSE IF SortKeyLt(x, sorted[Len(sorted)])
         THEN Append(InsertTier(SubSeq(sorted, 1, Len(sorted) - 1), x), sorted[Len(sorted)])
    ELSE Append(sorted, x)

\* a variant that leaves the tiers in the order of the ladder
InputOrder(tiers, sorted) == tiers

RECURSIVE SortTiers(_, _)
SortTiers(tiers, sorted) ==
    IF tiers = <<>> THEN sorted
    ELSE SortTiers(Tail(tiers), InsertTier(sorted, Head(tiers)))

\* existing_pricing_index: None, or the entries keyed by (currency, lower, upper)
NoIndex == [present |-> FALSE, entries |-> {}]

\* existing_pricing_index = {}: an index without entries
EmptyIndex == [present |-> TRUE, entries |-> {}]

OptDecEq(x, y) == IF x = None \/ y = None THEN x = y ELSE DecEq(x, y)

IndexHas(index, currency_code, lower_value, upper_value) ==
    \E e \in index.entries :
        /\ e.currency = currency_code
        /\ OptDecEq(e.lower, lower_value)
        /\ OptDecEq(e.upper, upper_value)

PricingEntry(contract_rate_id, currency_code, effective_iso, end_date_iso, tier) ==
    [CurrencyCode |-> currency_code,
     ContractRateId |-> contract_rate_id,
     EffectiveDate |-> effective_iso,
     LowerBand |-> format_decimal(tier.lower),
     UpperBand |-> IF tier.upper = None THEN <<"-", "1">> ELSE format_decimal(tier.upper),
     Rate |-> format_decimal(tier.rate),
     RerateFlag |-> <<"0">>,
     EndDate |-> end_date_iso]

\* a variant of the loop that never looks into the index
RECURSIVE TierLoopCreatingAll(_, _, _, _, _, _)
TierLoopCreatingAll(tiers, contract_rate_id, currency_code, effective_iso, end_date_iso, index) ==
    IF tiers = <<>> THEN [payloads |-> <<>>, skipped |-> <<>>]
    ELSE IF Head(tiers).upper # None /\ DecLt(Head(tiers).upper, Head(tiers).lower)
         THEN [payloads |-> <<>>, skipped |-> <<>>]
    ELSE [payloads |-> <<PricingEntry(contract_rate_id, currency_code,
                                      effective_iso, end_date_iso, Head(tiers))>>
                       \o TierLoopCreatingAll(Tail(tiers), contract_rate_id, currency_code,
                                              effective_iso, end_date_iso, index).payloads,
          skipped |-> <<>>]

\* a variant of the loop that passes over a tier that ends below its start and goes on
RECURSIVE TierLoopPassing(_, _, _, _, _, _)
TierLoopPassing(tiers, contract_rate_id, currency_code, effective_iso, end_date_iso, index) ==
    IF tiers = <<>> THEN [payloads |-> <<>>, skipped |-> <<>>]
    ELSE IF Head(tiers).upper # None /\ DecLt(Head(tiers).upper, Head(tiers).lower)
         THEN TierLoopPassing(Tail(tiers), contract_rate_id, currency_code,
                              effective_iso, end_date_iso, index)
    ELSE [f \in {"payloads", "skipped"} |->
             (IF (f = "skipped") =
                 (index.present /\ IndexHas(index, currency_code, Head(tiers).lower, Head(tiers).upper))
              THEN <<IF f = "skipped" THEN Head(tiers)
                     ELSE PricingEntry(contract_rate_id, currency_code,
                                       effective_iso, end_date_iso, Head(tiers))>>
              ELSE <<>>)
             \o TierLoopPassing(Tail(tiers), contract_rate_id, currency_code,
                                effective_iso, end_date_iso, index)[f]]

\* a variant of the loop that skips a tier only when the period found under
\* its key has the rate of the tier
RECURSIVE TierLoopSameRate(_, _, _, _, _, _)
TierLoopSameRate(tiers, contract_rate_id, currency_code, effective_iso, end_date_iso, index) ==
    IF tiers = <<>> THEN [payloads |-> <<>>, skipped |-> <<>>]
    ELSE IF Head(tiers).upper # None /\ DecLt(Head(tiers).upper, Head(tiers).lower)
         THEN [payloads |-> <<>>, skipped |-> <<>>]
    ELSE [f \in {"payloads", "skipped"} |->
             (IF (f = "skipped") =
                 (index.present /\ \E e \in index.entries :
                     /\ IndexHas([index EXCEPT !.entries = {e}], currency_code,
                                 Head(tiers).lower, Head(tiers).upper)
                     /\ e.entry.Rate = format_decimal(Head(tiers).rate))
              THEN <<IF f = "skipped" THEN Head(tiers)
                     ELSE PricingEntry(contract_rate_id, currency_code,
                                       effective_iso, end_date_iso, Head(tiers))>>
              ELSE <<>>)
             \o TierLoopSameRate(Tail(tiers), contract_rate_id, currency_code,
                                 effective_iso, end_date_iso, index)[f]]

\* the loop over one row's tiers in creation order: payloads and skipped tiers
RECURSIVE TierLoop(_, _, _, _, _, _)
TierLoop(tiers, contract_rate_id, currency_code, effective_iso, end_date_iso, index) ==
    IF tiers = <<>> THEN [payloads |-> <<>>, skipped |-> <<>>]
    ELSE IF Head(tiers).upper # None /\ DecLt(Head(tiers).upper, Head(tiers).lower)
         THEN [payloads |-> <<>>, skipped |-> <<>>]
    ELSE [f \in {"payloads", "skipped"} |->
             (IF (f = "skipped") =
                 (index.present /\ IndexHas(index, currency_code, Head(tiers).lower, Head(tiers).upper))
              THEN <<IF f = "skipped" THEN Head(tiers)
                     ELSE PricingEntry(contract_rate_id, currency_code,
                                       effective_iso, end_date_iso, Head(tiers))>>
              ELSE <<>>)
             \o TierLoop(Tail(tiers), contract_rate_id, currency_code,
                         effective_iso, end_date_iso, index)[f]]

\* a variant that goes from the effective-date cell straight to the fallback date
EffectiveDateOrFallback(row, fallback_start_date, today) ==
    parse_date(row.effective_date, fallback_start_date, today)

RowEffectiveDate(row, fallback_start_date, today) ==
    parse_date(row.effective_date, parse_date(row.start_date, fallback_start_date, today), today)

\* a variant that deduplicates by ladder: a row with a tier in the index emits nothing
RowTiersPerLadder(canonical_tiers, contract_rate_id, currency_code, effective_iso, end_date_iso, index) ==
    IF index.present /\ \E i \in DOMAIN canonical_tiers :
           IndexHas(index, currency_code, canonical_tiers[i].lower, canonical_tiers[i].upper)
    THEN [tiers |-> canonical_tiers, payloads |-> <<>>, skipped |-> canonical_tiers]
    ELSE [tiers |-> canonical_tiers]
         @@ TierLoopCreatingAll(SortTiers(canonical_tiers, <<>>), contract_rate_id, currency_code,
                                effective_iso, end_date_iso, index)

\* one row of the loop: its canonical tiers, and what the loop over them gave
RowTiers(canonical_tiers, contract_rate_id, currency_code, effective_iso, end_date_iso, index) ==
    [tiers |-> canonical_tiers]
    @@ TierLoop(SortTiers(canonical_tiers, <<>>), contract_rate_id, currency_code,
                effective_iso, end_date_iso, index)

RowPayloads(row, contract_rate_id, currency_code, fallback_start_date, index, today) ==
    RowTiers(build_canonical_tiers_from_row(row), contract_rate_id, currency_code,
             IsoText(RowEffectiveDate(row, fallback_start_date, today)),
             IsoText(parse_optional_date(row.end_date)), index)

\* the lists grow row after row; last_canonical_tiers is the last ladder that is not empty
AfterRow(first, rest) ==
    [payloads |-> first.payloads \o rest.payloads,
     skipped |-> first.skipped \o rest.skipped,
     tiers |-> IF rest.tiers # <<>> THEN rest.tiers ELSE first.tiers]

RECURSIVE build_pricing_payloads_from_rows(_, _, _, _, _, _)
build_pricing_payloads_from_rows(contract_rate_id, currency_code, rows_for_group, fallback_start_date, index, today) ==
    IF rows_for_group = <<>> THEN [payloads |-> <<>>, skipped |-> <<>>, tiers |-> <<>>]
    ELSE AfterRow(RowPayloads(Head(rows_for_group), contract_rate_id, currency_code,
                              fallback_start_date, index, today),
                  build_pricing_payloads_from_rows(contract_rate_id, currency_code,
                      Tail(rows_for_group), fallback_start_date, index, today))

(***************************************************************************)
(* The remote ledger: create assigns ids, update sets the fields it is     *)
(* given on the record with the payload's Id, delete removes by id.        *)
(***************************************************************************)
RECURSIVE Created(_, _)
Created(entries, id) ==
    IF entries = <<>> THEN {}
    ELSE {[Id |-> id] @@ Head(entries)} \cup Created(Tail(entries), id + 1)

\* create_pricing_batch: POST {"brmObjects": pricing_entries}
create_pricing_batch(led, pricing_entries, id) == led \cup Created(pricing_entries, id)

\* update_pricing_record: PUT {"brmObjects": payload}
update_pricing_record(led, payload) ==
    {IF p.Id = payload.Id THEN payload @@ p ELSE p : p \in led}

\* delete_pricing_batch: DELETE {"brmObjects": [{"Id": pid} ...]}
delete_pricing_batch(led, ids) == {p \in led : p.Id \notin ids}

\* fetch_pricing_for_contract_rate: the periods of the pair
fetch_pricing_for_contract_rate(led, contract_rate_id, currency_code) ==
    {p \in led : p.ContractRateId = contract_rate_id /\ p.CurrencyCode = currency_code}

(***************************************************************************)
(* Amendment reconciler (price change)                                     *)
(***************************************************************************)
MaxDay == 3
MaxRows == 2

Days == 1..MaxDay

\* date.max, the sort key of a row without a parsable date
DateMax == MaxDay + 1

\* date.today(), never before the dates of the rows
Today == MaxDay

ContractRate == "CR1"
Currency == "USD"

Txt1 == <<"1">>
Txt2 == <<"2">>
Txt5 == <<"5">>
TxtUnlimited == <<"-", "1">>

\* a two-tier structured ladder, 0..5 and from 5.0000000001 on
TwoTierSlots == <<Slot(<<>>, Txt5, Txt2), Slot(<<>>, TxtUnlimited, Txt1)>>

\* a legacy one-tier ladder, unlimited
OneTierLegacy == <<"-", "1", ":", "2">>

\* a legacy ladder whose only tier ends below 0, where it starts
InvertedLegacy == <<"-", "5", ":", "1">>

Row(eff, start, end, slots, tiers) ==
    [effective_date |-> eff, start_date |-> start, end_date |-> end,
     slots |-> slots, tiers |-> tiers, rate |-> <<>>]

_sort_key(row) ==
    LET d == parse_iso_to_date(OrCell(row.effective_date, row.start_date))
    IN  IF d # NoDate THEN d ELSE DateMax

\* sorted(rows_for_group, key=_sort_key), stable
RECURSIVE InsertRow(_, _)
InsertRow(sorted, x) ==
    IF sorted = <<>> THEN <<x>>
    ELSE IF _sort_key(x) < _sort_key(sorted[Len(sorted)])
         THEN Append(InsertRow(SubSeq(sorted, 1, Len(sorted) - 1), x), sorted[Len(sorted)])
    ELSE Append(sorted, x)

\* a variant that leaves the rows in the order of the file
RowsAsGiven(rows, sorted) == rows

RECURSIVE SortRows(_, _)
SortRows(rows, sorted) ==
    IF rows = <<>> THEN sorted
    ELSE SortRows(Tail(rows), InsertRow(sorted, Head(rows)))

FirstEffectiveDate(rows) ==
    parse_iso_to_date(OrCell(rows[1].effective_date, rows[1].start_date))

\* the test of the loop that looks for the currently active period
IsActiveAt(pr, first) ==
    LET eff == parse_iso_to_date(pr.EffectiveDate)
        end == parse_iso_to_date(pr.EndDate)
    IN  eff # NoDate /\ eff <= first /\ (end = NoDate \/ end >= first)

ActiveRows(existing, first) == {pr \in existing : IsActiveAt(pr, first)}

EarliestOf(active) ==
    {pr \in active :
        \A q \in active :
            parse_iso_to_date(pr.EffectiveDate) <= parse_iso_to_date(q.EffectiveDate)}

\* current_row stays None when the loop finds no active period
NoRow == [Id |-> 0]

OrNoRow(found) == IF found = {} THEN {NoRow} ELSE found

\* the rows come ORDER BY EffectiveDate ASC, ties in any order: the first
\* active one is any active period of the earliest effective date
CurrentRowChoices(existing, first) == OrNoRow(EarliestOf(ActiveRows(existing, first)))

\* a variant that shortens the active period whenever one was found
ShortenAnyActive(current, first) == current # NoRow

NeedsShorten(current, first) ==
    current # NoRow /\ parse_iso_to_date(current.EffectiveDate) < first

\* a variant of the update that moves the effective date as well
UpdateMovingEffectiveDate(current, cut_date) ==
    [Id |-> current.Id, EndDate |-> IsoText(cut_date), EffectiveDate |-> IsoText(cut_date)]

UpdatePayload(current, cut_date) == [Id |-> current.Id, EndDate |-> IsoText(cut_date)]

\* a variant of the delete list that keeps the periods effective on the first date
ToDeleteIdsAfter(existing, first) ==
    {pr.Id : pr \in {q \in existing : parse_iso_to_date(q.EffectiveDate) > first}}

ToDeleteIds(existing, first) ==
    {pr.Id : pr \in {q \in existing :
                        /\ parse_iso_to_date(q.EffectiveDate) # NoDate
                        /\ parse_iso_to_date(q.EffectiveDate) >= first}}

\* a variant that runs the builder with an index that holds the band 0..5
NewPayloadsWithIndex(rows, first) ==
    build_pricing_payloads_from_rows(ContractRate, Currency, rows, first,
        [present |-> TRUE,
         entries |-> {[currency |-> Currency, lower |-> Zero, upper |-> Dec(FALSE, 5, 0, 0, 0)]}],
        Today).payloads

NewPayloads(rows, first) ==
    build_pricing_payloads_from_rows(ContractRate, Currency, rows, first, NoIndex, Today).payloads

VARIABLES
    ledger,                 \* the remote Pricing Periods
    next_id,                \* the id the ledger assigns next
    pc,                     \* where the flow is in the group or row in progress
    rows_for_group,         \* the group's rows, sorted
    first_effective_date,
    existing_pricing,       \* the periods fetched at the start of the splice
    current_row,            \* the currently active period found, or NoRow
    calls,                  \* the remote calls issued for the group in progress, in order
    result,                 \* how the group ended
    pricing_row,            \* the row given to build_canonical_tiers_from_row
    ladder,                 \* the canonical tiers it returned
    dec_value,              \* the decimal given to format_decimal
    dec_text,               \* the text it returned
    dec_band,               \* what parse_pricing_band read back from the text
    group,                  \* main's variables of the contract group in progress
    product,                \* main's variables of the product group in progress
    product_cache,          \* _PRODUCT_CACHE
    reply,                  \* the HTTP reply to the last query
    quantity_change,        \* handle_quantity_change's variables of the row in progress
    account_product,        \* the remote account product record of that row
    amendments              \* process_amendments' rows, lists and loop positions

reconciler_vars == <<ledger, next_id, rows_for_group, first_effective_date,
                     existing_pricing, current_row, calls, result>>

tier_vars == <<pricing_row, ladder>>

decimal_vars == <<dec_value, dec_text, dec_band>>

create_vars == <<group, product, product_cache, reply>>

quantity_vars == <<quantity_change, account_product>>

amendment_vars == <<amendments>>

flow_vars == <<create_vars, quantity_vars, amendment_vars>>

vars == <<pc, reconciler_vars, tier_vars, decimal_vars, flow_vars>>

NoPricingRow == [slots |-> <<>>, tiers |-> <<>>, rate |-> <<>>]

\* the reconciler has not run
ReconcilerIdle ==
    /\ ledger = {}
    /\ next_id = 1
    /\ rows_for_group = <<>>
    /\ first_effective_date = NoDate
    /\ existing_pricing = {}
    /\ current_row = NoRow
    /\ calls = <<>>
    /\ result = "none"

TiersIdle == pricing_row = NoPricingRow /\ ladder = <<>>

DecimalIdle == dec_value = Zero /\ dec_text = <<>> /\ dec_band = None

\* an id that is None or missing; ids are texts
NoId == <<>>

\* no contract group in progress
NoGroup ==
    [account_id |-> NoId, billing_profile_id |-> NoId, poll_attempts |-> 0,
     contract_id |-> NoId, processed_currencies |-> {}, done_keys |-> {}]

\* no product group in progress
NoProduct ==
    [key |-> <<>>, rows |-> <<>>, contract_rate_id |-> NoId, row_no |-> 0,
     existing_pricing_index |-> EmptyIndex, pricing_payload_entries |-> <<>>,
     skipped_existing |-> <<>>, canonical_tiers |-> <<>>]

NoReply == [kind |-> "none"]

\* configure_product_lookup: the cache is cleared
EmptyCache == <<>>

\* main's create flow has not run
CreateIdle ==
    /\ group = NoGroup
    /\ product = NoProduct
    /\ product_cache = EmptyCache
    /\ reply = NoReply

NoQuantityChange ==
    [quantity |-> <<>>, contract_start_date |-> <<>>, ap_id |-> NoId, status |-> <<>>]

NoAccountProduct == [Id |-> NoId, Status |-> <<>>, Quantity |-> <<>>]

\* handle_quantity_change has not run
QuantityIdle == quantity_change = NoQuantityChange /\ account_product = NoAccountProduct

\* process_amendments has not run: no rows, no lists, no loop under way
NoAmendments ==
    [rows |-> <<>>, quantity_rows |-> <<>>, price_rows |-> <<>>, groups |-> <<>>,
     row_no |-> 0, group_no |-> 0]

AmendmentsIdle == amendments = NoAmendments

\* the rows an amendment file or a contract file may carry
DatedRows ==
    [d \in Days |-> Row(DateCell(d), EmptyCell, EmptyCell, TwoTierSlots, <<>>)]
    \o <<Row(DateCell(1), EmptyCell, DateCell(1), <<>>, OneTierLegacy),
         Row(EmptyCell, DateCell(1), DateCell(2), <<>>, OneTierLegacy)>>

AmendmentRows ==
    DatedRows
    \o <<Row(DateCell(2), EmptyCell, EmptyCell, <<>>, InvertedLegacy),
         Row(IsoCell(2), DateCell(3), EmptyCell, <<>>, OneTierLegacy),
         Row(BadCell, DateCell(1), EmptyCell, <<>>, OneTierLegacy)>>

SeqsUpTo(S, n) == UNION {[1..k -> S] : k \in 1..n}

\* the groups of a price-change amendment file: one to MaxRows rows, in any order
AmendmentGroups ==
    {[k \in DOMAIN ix |-> AmendmentRows[ix[k]]] : ix \in SeqsUpTo(DOMAIN AmendmentRows, MaxRows)}

\* the pricing rows of a contract file: up to MaxRows different rows
ContractGroups ==
    {[k \in DOMAIN ix |-> DatedRows[ix[k]]] :
        ix \in {jx \in SeqsUpTo(DOMAIN DatedRows, MaxRows) :
                   \A a, b \in DOMAIN jx : a < b => jx[a] < jx[b]}}

\* the ledger as main's create flow leaves it for a new contract rate:
\* nothing exists yet, so the index is empty and every tier is created

CreateFlowLedger(rows) ==
    create_pricing_batch({},
        build_pricing_payloads_from_rows(ContractRate, Currency, rows, NoDate,
                                         EmptyIndex, Today).payloads, 1)

Init ==
    /\ ledger \in {{}} \cup {CreateFlowLedger(g) : g \in ContractGroups}
    /\ next_id = Cardinality(ledger) + 1
    /\ pc = "idle"
    /\ rows_for_group = <<>>
    /\ first_effective_date = NoDate
    /\ existing_pricing = {}
    /\ current_row = NoRow
    /\ calls = <<>>
    /\ result = "none"
    /\ TiersIdle
    /\ DecimalIdle
    /\ CreateIdle
    /\ QuantityIdle
    /\ AmendmentsIdle

\* apply_price_change_for_group up to the check of the first effective date,
\* for a group out of groups
BeginInvalidOf(groups) ==
    /\ pc = "idle"
    /\ \E g \in groups :
       \E rows \in {SortRows(g, <<>>)} :
          /\ FirstEffectiveDate(rows) = NoDate
          /\ rows_for_group' = rows
    /\ pc' = "finished"
    /\ result' = "invalid"
    /\ UNCHANGED <<ledger, next_id, first_effective_date, existing_pricing, current_row, calls>>
    /\ UNCHANGED <<tier_vars, decimal_vars, flow_vars>>

BeginInvalid == BeginInvalidOf(AmendmentGroups)

\* ... and on to the fetch of the existing periods and the search of the active one
BeginFetchOf(groups) ==
    /\ pc = "idle"
    /\ \E g \in groups :
       \E rows \in {SortRows(g, <<>>)} :
       \E existing \in {fetch_pricing_for_contract_rate(ledger, ContractRate, Currency)} :
          /\ FirstEffectiveDate(rows) # NoDate
          /\ rows_for_group' = rows
          /\ first_effective_date' = FirstEffectiveDate(rows)
          /\ existing_pricing' = existing
          /\ current_row' \in CurrentRowChoices(existing, FirstEffectiveDate(rows))
    /\ pc' = "shorten"
    /\ UNCHANGED <<ledger, next_id, calls, result>>
    /\ UNCHANGED <<tier_vars, decimal_vars, flow_vars>>

BeginFetch == BeginFetchOf(AmendmentGroups)

\* the fetch raises: nothing catches it and the run ends
FetchFailsOf(groups) ==
    /\ pc = "idle"
    /\ \E g \in groups :
       \E rows \in {SortRows(g, <<>>)} :
          /\ FirstEffectiveDate(rows) # NoDate
          /\ rows_for_group' = rows
          /\ first_effective_date' = FirstEffectiveDate(rows)
    /\ pc' = "crashed"
    /\ UNCHANGED <<ledger, next_id, existing_pricing, current_row, calls, result>>
    /\ UNCHANGED <<tier_vars, decimal_vars, flow_vars>>

FetchFails == FetchFailsOf(AmendmentGroups)

ShortenOk ==
    /\ pc = "shorten"
    /\ NeedsShorten(current_row, first_effective_date)
    /\ \E payload \in {UpdatePayload(current_row, first_effective_date - 1)} :
           /\ ledger' = update_pricing_record(ledger, payload)
           /\ calls' = Append(calls, [op |-> "update", payload |-> payload, ok |-> TRUE])
    /\ pc' = "delete"
    /\ UNCHANGED <<next_id, rows_for_group, first_effective_date, existing_pricing,
                   current_row, result>>
    /\ UNCHANGED <<tier_vars, decimal_vars, flow_vars>>

\* a variant of the failing update after which the group goes on
ShortenFailIgnored ==
    /\ pc = "shorten"
    /\ NeedsShorten(current_row, first_effective_date)
    /\ \E payload \in {UpdatePayload(current_row, first_effective_date - 1)} :
           /\ ledger' \in {ledger, update_pricing_record(ledger, payload)}
           /\ calls' = Append(calls, [op |-> "update", payload |-> payload, ok |-> FALSE])
    /\ pc' = "delete"
    /\ UNCHANGED <<next_id, rows_for_group, first_effective_date, existing_pricing,
                   current_row, result>>
    /\ UNCHANGED <<tier_vars, decimal_vars, flow_vars>>

\* the update raises, whether or not the ledger applied it: the group is abandoned
ShortenFail ==
    /\ pc = "shorten"
    /\ NeedsShorten(current_row, first_effective_date)
    /\ \E payload \in {UpdatePayload(current_row, first_effective_date - 1)} :
           /\ ledger' \in {ledger, update_pricing_record(ledger, payload)}
           /\ calls' = Append(calls, [op |-> "update", payload |-> payload, ok |-> FALSE])
    /\ pc' = "finished"
    /\ result' = "aborted"
    /\ UNCHANGED <<next_id, rows_for_group, first_effective_date, existing_pricing, current_row>>
    /\ UNCHANGED <<tier_vars, decimal_vars, flow_vars>>

ShortenSkip ==
    /\ pc = "shorten"
    /\ ~NeedsShorten(current_row, first_effective_date)
    /\ pc' = "delete"
    /\ UNCHANGED <<ledger, next_id, rows_for_group, first_effective_date, existing_pricing,
                   current_row, calls, result>>
    /\ UNCHANGED <<tier_vars, decimal_vars, flow_vars>>

DeleteOk ==
    /\ pc = "delete"
    /\ \E ids \in {ToDeleteIds(existing_pricing, first_effective_date)} :
           /\ ids # {}
           /\ ledger' = delete_pricing_batch(ledger, ids)
           /\ calls' = Append(calls, [op |-> "delete", ids |-> ids, ok |-> TRUE])
    /\ pc' = "create"
    /\ UNCHANGED <<next_id, rows_for_group, first_effective_date, existing_pricing,
                   current_row, result>>
    /\ UNCHANGED <<tier_vars, decimal_vars, flow_vars>>

DeleteFail ==
    /\ pc = "delete"
    /\ \E ids \in {ToDeleteIds(existing_pricing, first_effective_date)} :
           /\ ids # {}
           /\ ledger' \in {ledger, delete_pricing_batch(ledger, ids)}
           /\ calls' = Append(calls, [op |-> "delete", ids |-> ids, ok |-> FALSE])
    /\ pc' = "finished"
    /\ result' = "aborted"
    /\ UNCHANGED <<next_id, rows_for_group, first_effective_date, existing_pricing, current_row>>
    /\ UNCHANGED <<tier_vars, decimal_vars, flow_vars>>

DeleteSkip ==
    /\ pc = "delete"
    /\ ToDeleteIds(existing_pricing, first_effective_date) = {}
    /\ pc' = "create"
    /\ UNCHANGED <<ledger, next_id, rows_for_group, first_effective_date, existing_pricing,
                   current_row, calls, result>>
    /\ UNCHANGED <<tier_vars, decimal_vars, flow_vars>>

CreateOk ==
    /\ pc = "create"
    /\ \E new_payloads \in {NewPayloads(rows_for_group, first_effective_date)} :
           /\ new_payloads # <<>>
           /\ ledger' = create_pricing_batch(ledger, new_payloads, next_id)
           /\ next_id' = next_id + Len(new_payloads)
           /\ calls' = Append(calls, [op |-> "create", entries |-> new_payloads, ok |-> TRUE])
    /\ pc' = "finished"
    /\ result' = "done"
    /\ UNCHANGED <<rows_for_group, first_effective_date, existing_pricing, current_row>>
    /\ UNCHANGED <<tier_vars, decimal_vars, flow_vars>>

\* the create raises, whether or not the ledger stored the batch: logged, nothing more
CreateFail ==
    /\ pc = "create"
    /\ \E new_payloads \in {NewPayloads(rows_for_group, first_effective_date)} :
           /\ new_payloads # <<>>
           /\ \/ /\ ledger' = ledger
                 /\ next_id' = next_id
              \/ /\ ledger' = create_pricing_batch(ledger, new_payloads, next_id)
                 /\ next_id' = next_id + Len(new_payloads)
           /\ calls' = Append(calls, [op |-> "create", entries |-> new_payloads, ok |-> FALSE])
    /\ pc' = "finished"
    /\ result' = "create_failed"
    /\ UNCHANGED <<rows_for_group, first_effective_date, existing_pricing, current_row>>
    /\ UNCHANGED <<tier_vars, decimal_vars, flow_vars>>

\* no payload: a warning, nothing created
CreateSkip ==
    /\ pc = "create"
    /\ NewPayloads(rows_for_group, first_effective_date) = <<>>
    /\ pc' = "finished"
    /\ result' = "done"
    /\ UNCHANGED <<ledger, next_id, rows_for_group, first_effective_date, existing_pricing,
                   current_row, calls>>
    /\ UNCHANGED <<tier_vars, decimal_vars, flow_vars>>

Next ==
    \/ BeginInvalid
    \/ BeginFetch
    \/ FetchFails
    \/ ShortenOk
    \/ ShortenFail
    \/ ShortenSkip
    \/ DeleteOk
    \/ DeleteFail
    \/ DeleteSkip
    \/ CreateOk
    \/ CreateFail
    \/ CreateSkip

Spec == Init /\ [][Next]_vars

(***************************************************************************)
(* build_canonical_tiers_from_row on the rows of a pricing file            *)
(***************************************************************************)
MaxSlots == 2
MaxEntries == 2

Txt7 == <<"7">>
TxtMinus2 == <<"-", "2">>
TxtX == <<"x">>

\* 0.00000000005: eleven fractional digits, one more than PRICING_DECIMAL_PLACES
TxtFine == <<"0", ".", "0", "0", "0", "0", "0", "0", "0", "0", "0", "0", "5">>

FromCells == {<<>>, Txt7, TxtMinus2}
ToCells == {<<>>, Txt5, TxtUnlimited, TxtFine}
RateCells == {<<>>, Txt2, TxtX}

SlotChoices == {Slot(f, t, r) : f \in FromCells, t \in ToCells, r \in RateCells}

\* upper:rate entries of the legacy column
EntryChoices ==
    {<<"5", ":", "1">>, <<"3", ":", "2">>, <<"-", "1", ":", "2">>, TxtX}

RECURSIVE Join(_)
Join(parts) ==
    IF parts = <<>> THEN <<>>
    ELSE IF Len(parts) = 1 THEN parts[1]
    ELSE parts[1] \o <<";">> \o Join(Tail(parts))

LegacyTexts == {<<>>} \cup {Join(parts) : parts \in SeqsUpTo(EntryChoices, MaxEntries)}

\* the first slots of the rows that carry the legacy column as well
BothSlots ==
    {<<Slot(<<>>, Txt5, Txt2)>>, <<Slot(<<>>, Txt5, <<>>)>>, <<Slot(<<>>, Txt5, TxtX)>>,
     <<Slot(Txt7, Txt5, Txt2)>>, <<Slot(<<>>, TxtUnlimited, Txt2)>>}

\* three slots after a first tier 0..5: the second slot starts off the expected
\* lower bound, is empty, lacks a parsable rate or ends below its start
LongSlots ==
    {<<Slot(<<>>, Txt5, Txt2), second, Slot(f, t, Txt2)>> :
        second \in {Slot(TxtMinus2, Txt5, Txt2), Slot(<<>>, <<>>, <<>>), Slot(<<>>, Txt7, TxtX),
                    Slot(<<>>, Txt7, <<>>), Slot(Txt7, Txt5, Txt2), Slot(<<>>, Txt7, Txt2)},
        f \in {<<>>, Txt7}, t \in {Txt7, TxtUnlimited}}

Txt100 == <<"1", "0", "0">>

\* the ladder 0..100 at rate 5, then unlimited at rate 3, in the two encodings
HundredSlots == <<Slot(<<>>, Txt100, Txt5), Slot(<<>>, TxtUnlimited, <<"3">>)>>
HundredLegacy == Join(<<Txt100 \o <<":", "5">>, <<"-", "1", ":", "3">> >>)

\* a legacy ladder whose first upper bound has eleven fractional digits
FineLegacy == Join(<<TxtFine \o <<":", "2">>, <<"-", "1", ":", "2">> >>)

\* three pairs, the second without ':', with an unparsable upper bound or an unparsable rate
LongLegacy ==
    {Join(<< <<"5", ":", "1">>, bad, last >>) :
        bad \in {TxtX, <<"x", ":", "2">>, <<"7", ":", "x">>},
        last \in {<<"7", ":", "2">>, <<"3", ":", "2">>, <<"-", "1", ":", "2">>}}

\* a row carries the structured slots, or the legacy column and the rate column, or both
TierRows ==
    {[slots |-> sl, tiers |-> <<>>, rate |-> <<>>] :
        sl \in SeqsUpTo(SlotChoices, MaxSlots) \cup LongSlots \cup {HundredSlots}}
    \cup {[slots |-> <<>>, tiers |-> lt, rate |-> <<>>] :
              lt \in {HundredLegacy, FineLegacy} \cup LongLegacy}
    \cup {[slots |-> <<>>, tiers |-> lt, rate |-> r] : lt \in LegacyTexts, r \in RateCells}
    \cup {[slots |-> sl, tiers |-> lt, rate |-> Txt2] :
              sl \in BothSlots, lt \in {<<"-", "1", ":", "2">>, <<"3", ":", "2">>, TxtX}}

InitTiers ==
    /\ pc = "row"
    /\ pricing_row \in TierRows
    /\ ladder = <<>>
    /\ ReconcilerIdle
    /\ DecimalIdle
    /\ CreateIdle
    /\ QuantityIdle
    /\ AmendmentsIdle

BuildTiers ==
    /\ pc = "row"
    /\ ladder' = build_canonical_tiers_from_row(pricing_row)
    /\ pc' = "built"
    /\ UNCHANGED <<pricing_row, reconciler_vars, decimal_vars, flow_vars>>

NextTiers == BuildTiers

SpecTiers == InitTiers /\ [][NextTiers]_vars

(***************************************************************************)
(* format_decimal and parse_pricing_band on decimal values                 *)
(***************************************************************************)
MaxUnits == 2

\* the fractional digits 1..5, 6..10 and 11..12 of the values
FracHigh == {0, 1, 99999}
FracLow == {0, 1, 50000, 99999}
FracSub == {0, 1, 49, 50, 51, 99}

DecValues ==
    {Dec(neg, i, h, l, s) :
        neg \in BOOLEAN, i \in 0..MaxUnits \cup {100}, h \in FracHigh, l \in FracLow, s \in FracSub}

InitDec ==
    /\ pc = "value"
    /\ dec_value \in DecValues
    /\ dec_text = <<>>
    /\ dec_band = None
    /\ ReconcilerIdle
    /\ TiersIdle
    /\ CreateIdle
    /\ QuantityIdle
    /\ AmendmentsIdle

Format ==
    /\ pc = "value"
    /\ dec_text' = format_decimal(dec_value)
    /\ pc' = "formatted"
    /\ UNCHANGED <<dec_value, dec_band, reconciler_vars, tier_vars, flow_vars>>

ParseBand ==
    /\ pc = "formatted"
    /\ dec_band' = parse_pricing_band(dec_text)
    /\ pc' = "parsed"
    /\ UNCHANGED <<dec_value, dec_text, reconciler_vars, tier_vars, flow_vars>>

NextDec ==
    \/ Format
    \/ ParseBand

SpecDec == InitDec /\ [][NextDec]_vars

(***************************************************************************)
(* main's create flow: the loop over the contract groups of a file and,    *)
(* inside it, the loop over the product groups of the contract.  Every     *)
(* step is one remote call; what the remote side answers is chosen freely. *)
(* calls holds the remote calls of the group in progress: of the contract  *)
(* group up to the billing identifier, then of each product group.         *)
(***************************************************************************)
\* while poll_attempts < 5
PollLimit == 5

Txt404 == <<"4", "0", "4">>
Txt500 == <<"5", "0", "0">>
TimedOut == <<"t", "i", "m", "e", "d", " ", "o", "u", "t">>

\* what urlopen gives: a JSON body, an HTTPError with its code and body, or a URLError
Ok(records) == [kind |-> "ok", records |-> records, code |-> <<>>, details |-> <<>>]
HTTPError(code, details) == [kind |-> "HTTPError", records |-> <<>>, code |-> code, details |-> details]
URLError(reason) == [kind |-> "URLError", records |-> <<>>, code |-> <<>>, details |-> reason]

QueryErrors == {HTTPError(Txt404, <<>>), HTTPError(Txt500, <<>>), URLError(TimedOut)}

Replies(record_lists) == {Ok(records) : records \in record_lists} \cup QueryErrors

\* sub in text
In(sub, text) ==
    \E i \in 1..(Len(text) - Len(sub) + 1) : SubSeq(text, i, i + Len(sub) - 1) = sub

\* f"GET {url} failed ({err.code}): {details}", f"GET {url} failed: {err}"
ErrorMessage(url, r) ==
    <<"G", "E", "T", " ">> \o url \o <<" ", "f", "a", "i", "l", "e", "d">>
    \o (IF r.kind = "HTTPError" THEN <<" ", "(">> \o r.code \o <<")">> ELSE <<>>)
    \o <<":", " ">> \o r.details

http_get_json(url, r) ==
    [raised |-> r.kind # "ok",
     response |-> r.records,
     message |-> IF r.kind = "ok" THEN <<>> ELSE ErrorMessage(url, r)]

\* except RuntimeError: if "404" in message the result is empty, else raise
NotFoundAsEmpty(got) ==
    IF got.raised /\ In(Txt404, got.message)
    THEN [raised |-> FALSE, response |-> <<>>, message |-> <<>>]
    ELSE got

\* urljoin(base_url, f"query?sql={quote_plus(sql)}")
QueryUrl(sql) == <<"q", "u", "e", "r", "y", "?", "s", "q", "l", "=">> \o sql

perform_lookup(sql, r) == NotFoundAsEmpty(http_get_json(QueryUrl(sql), r))

\* the WHERE clause carries the value the query looks for
Sql(table, value) == table \o <<"+">> \o value

find_pricing_entries(contract_rate_id, r) ==
    NotFoundAsEmpty(perform_lookup(Sql(<<"P", "R", "I", "C", "I", "N", "G">>, contract_rate_id), r))

\* the ids the remote side hands out
AccountName == <<"A">>
AccountId == <<"A", "1">>
OtherAccountId == <<"A", "2">>
ProfileId == <<"B", "1">>
ContractId == <<"C", "1">>
ProductId == <<"P", "1">>
ContractRateIds == {<<"7">>, <<"1", "4", "0", "4", "5">>}

AccountRecord(profile) == [Id |-> AccountId, BillableBillingProfileId |-> profile]

AccountRecordLists == {<<>>, <<AccountRecord(NoId)>>, <<AccountRecord(ProfileId)>>}

ProfileRecordLists ==
    {<<>>, <<[Id |-> ProfileId, AccountID |-> AccountId]>>,
     <<[Id |-> ProfileId, AccountID |-> OtherAccountId]>>}

IdRecordLists(ids) == {<<>>} \cup {<<[Id |-> id]>> : id \in ids}

\* the PRICING records a contract rate may already have
Txt5Next == <<"5", ".", "0", "0", "0", "0", "0", "0", "0", "0", "0", "1">>
Txt3Next == <<"3", ".", "0", "0", "0", "0", "0", "0", "0", "0", "0", "1">>

Txt9 == <<"9">>

\* SELECT Id, ContractRateId, LowerBand, UpperBand, Rate, CurrencyCode: the
\* records carry the rate of the period and not its effective date
PricingRecord(id, currency, lower, upper, rate) ==
    [Id |-> id, CurrencyCode |-> currency, LowerBand |-> lower, UpperBand |-> upper,
     Rate |-> rate]

FirstBand == PricingRecord(<<"1">>, Currency, <<"0">>, Txt5, Txt2)
SecondBand == PricingRecord(<<"2">>, Currency, Txt5Next, TxtUnlimited, Txt9)
LastBand == PricingRecord(<<"3">>, "", Txt3Next, TxtUnlimited, Txt9)

PricingRecordLists ==
    {<<>>, <<FirstBand>>, <<SecondBand>>, <<FirstBand, SecondBand>>, <<LastBand>>}

\* key = (entry_currency, lower_band_value, upper_band_value)
IndexKey(entry, product_currency_code) ==
    [currency |-> IF entry.CurrencyCode # "" THEN entry.CurrencyCode ELSE product_currency_code,
     lower |-> parse_pricing_band(entry.LowerBand),
     upper |-> parse_pricing_band(entry.UpperBand)]

\* existing_pricing_index[key] = entry
PricingIndex(existing_pricing_entries, product_currency_code) ==
    [present |-> TRUE,
     entries |-> {IndexKey(existing_pricing_entries[k], product_currency_code)
                  @@ [entry |-> existing_pricing_entries[k]] :
                     k \in DOMAIN existing_pricing_entries}]

\* the rows of a contract file
Yes == <<"y", "e", "s">>

parse_bool(value) ==
    value \in {<<"t", "r", "u", "e">>, <<"1">>, Yes, <<"y">>, <<"t">>}

CreateRow(row, bundle_component, pricing_only, contract_rate_only) ==
    row @@ [bundle_component |-> bundle_component, pricing_only |-> pricing_only,
            contract_rate_only |-> contract_rate_only]

\* 5:1;3:2;-1:2, a legacy ladder whose second tier ends below the first
DescendingLegacy == Join(<< <<"5", ":", "1">>, <<"3", ":", "2">>, <<"-", "1", ":", "2">> >>)

PlainRow(d) == CreateRow(Row(DateCell(d), EmptyCell, EmptyCell, TwoTierSlots, <<>>), <<>>, <<>>, <<>>)
DescendingRow == CreateRow(Row(DateCell(1), EmptyCell, EmptyCell, <<>>, DescendingLegacy), <<>>, <<>>, <<>>)
PricingOnlyRow == CreateRow(Row(DateCell(1), EmptyCell, EmptyCell, TwoTierSlots, <<>>), <<>>, Yes, <<>>)
BundleRow == CreateRow(Row(DateCell(1), EmptyCell, EmptyCell, <<>>, <<>>), Yes, <<>>, <<>>)
RateOnlyRow == CreateRow(Row(DateCell(1), EmptyCell, EmptyCell, TwoTierSlots, <<>>), <<>>, <<>>, Yes)

\* the rows of one (product, currency) group
ProductRowLists ==
    {<<PlainRow(1)>>, <<PlainRow(1), PlainRow(2)>>, <<DescendingRow>>, <<PricingOnlyRow>>,
     <<BundleRow>>, <<PlainRow(1), BundleRow>>, <<RateOnlyRow>>}

ProductName == "P"
BillingIdentifierName == "Billing Identifier"

\* (product_name, row_currency_code); the contract's own currency is Currency
ProductKeys == {<<ProductName, Currency>>, <<ProductName, "EUR">>}

IsBundle(row) == parse_bool(row.bundle_component)
IsPricingDriving(row) == ~parse_bool(row.bundle_component)
IsNonPricingOnly(row) == IsPricingDriving(row) /\ ~parse_bool(row.pricing_only)

pricing_driving_rows(product_rows) == SelectSeq(product_rows, IsPricingDriving)
non_pricing_only_rows(product_rows) == SelectSeq(product_rows, IsNonPricingOnly)

\* the branch on the kinds of rows before the contract rate is resolved
ContractRateStep(product_rows) ==
    IF pricing_driving_rows(product_rows) = <<>> THEN "account_products"
    ELSE IF non_pricing_only_rows(product_rows) # <<>> THEN "create_contract_rate"
    ELSE "find_contract_rate"

\* one remote call of the group in progress
Call(op, kind, outcome, row) == [op |-> op, kind |-> kind, outcome |-> outcome, row |-> row]

\* how a query ended
Ended(got) ==
    IF got.raised THEN "failed" ELSE IF got.response = <<>> THEN "empty" ELSE "found"

\* the variables the create flow leaves alone
create_rest ==
    <<ledger, next_id, rows_for_group, first_effective_date, existing_pricing, current_row,
      result, tier_vars, decimal_vars, quantity_vars, amendment_vars>>

InitCreate ==
    /\ pc = "groups"
    /\ ReconcilerIdle
    /\ TiersIdle
    /\ DecimalIdle
    /\ CreateIdle
    /\ QuantityIdle
    /\ AmendmentsIdle

\* a group without account name or currency in its first row is skipped
SkipGroup ==
    /\ pc = "groups"
    /\ group' = NoGroup
    /\ product' = NoProduct
    /\ reply' = NoReply
    /\ calls' = <<>>
    /\ UNCHANGED <<pc, product_cache, create_rest>>

BeginGroup ==
    /\ pc = "groups"
    /\ group' = NoGroup
    /\ product' = NoProduct
    /\ reply' = NoReply
    /\ calls' = <<>>
    /\ pc' = "account_lookup"
    /\ UNCHANGED <<product_cache, create_rest>>

\* the file has no further contract group
EndRun ==
    /\ pc = "groups"
    /\ pc' = "finished"
    /\ UNCHANGED <<calls, create_vars, create_rest>>

AccountLookup ==
    /\ pc = "account_lookup"
    /\ \E r \in Replies(AccountRecordLists) :
       \E got \in {perform_lookup(Sql(<<"A", "c", "c", "o", "u", "n", "t">>, AccountName), r)} :
          /\ reply' = r
          /\ calls' = Append(calls, Call("perform_lookup", "query", Ended(got), 0))
          /\ group' = IF Ended(got) # "found" THEN group
                      ELSE [group EXCEPT !.account_id = got.response[1].Id,
                                         !.billing_profile_id = got.response[1].BillableBillingProfileId]
          /\ pc' = IF got.raised THEN "groups"
                   ELSE IF got.response = <<>> THEN "create_account"
                   ELSE "billing_profiles"
    /\ UNCHANGED <<product, product_cache, create_rest>>

\* create_account: the id of the response, a response without one, ApiTimeout, or an error
CreateAccount ==
    /\ pc = "create_account"
    /\ \E outcome \in {"ok", "no_id", "timeout", "failed"} :
          /\ calls' = Append(calls, Call("create_account", "create", outcome, 0))
          /\ group' = IF outcome = "ok" THEN [group EXCEPT !.account_id = AccountId] ELSE group
          /\ pc' = IF outcome = "ok" THEN "billing_profiles"
                   ELSE IF outcome = "failed" THEN "groups"
                   ELSE "verify_account"
    /\ reply' = NoReply
    /\ UNCHANGED <<product, product_cache, create_rest>>

\* the lookup after the creation attempt; without an account id the group is left
VerifyAccount ==
    /\ pc = "verify_account"
    /\ \E r \in Replies(AccountRecordLists) :
       \E got \in {perform_lookup(Sql(<<"A", "c", "c", "o", "u", "n", "t">>, AccountName), r)} :
          /\ reply' = r
          /\ calls' = Append(calls, Call("perform_lookup", "query", Ended(got), 0))
          /\ group' = IF Ended(got) # "found" THEN group
                      ELSE [group EXCEPT !.account_id = got.response[1].Id,
                                         !.billing_profile_id = got.response[1].BillableBillingProfileId]
          /\ pc' = IF Ended(got) = "found" THEN "billing_profiles" ELSE "groups"
    /\ UNCHANGED <<product, product_cache, create_rest>>

\* find_billing_profiles is not in a try: an error ends the run
FindBillingProfiles ==
    /\ pc = "billing_profiles"
    /\ \E r \in Replies(ProfileRecordLists) :
       \E got \in {perform_lookup(Sql(<<"P", "R", "O", "F", "I", "L", "E">>, group.account_id), r)} :
          /\ reply' = r
          /\ calls' = Append(calls, Call("find_billing_profiles", "query", Ended(got), 0))
          /\ group' = IF Ended(got) # "found" THEN group
                      ELSE [group EXCEPT !.billing_profile_id = got.response[1].Id]
          /\ pc' = IF got.raised THEN "crashed"
                   ELSE IF got.response # <<>> THEN "update_account"
                   ELSE IF group.billing_profile_id # NoId THEN "get_billing_profile"
                   ELSE "create_billing_profile"
    /\ UNCHANGED <<product, product_cache, create_rest>>

\* the profile the account names counts only when it belongs to the account
GetBillingProfile ==
    /\ pc = "get_billing_profile"
    /\ \E r \in Replies(ProfileRecordLists) :
       \E got \in {perform_lookup(Sql(<<"P", "R", "O", "F", "I", "L", "E">>, group.billing_profile_id), r)} :
          /\ reply' = r
          /\ calls' = Append(calls, Call("get_billing_profile", "query", Ended(got), 0))
          /\ IF got.raised
             THEN pc' = "crashed" /\ group' = group
             ELSE IF got.response # <<>> /\ got.response[1].AccountID = group.account_id
             THEN pc' = "update_account" /\ group' = group
             ELSE pc' = "create_billing_profile"
                  /\ group' = [group EXCEPT !.billing_profile_id = NoId]
    /\ UNCHANGED <<product, product_cache, create_rest>>

\* create_billing_profile: an id, no id, an error code in the response, ApiTimeout, an error
CreateBillingProfile ==
    /\ pc = "create_billing_profile"
    /\ \E outcome \in {"ok", "no_id", "error_code", "timeout", "failed"} :
          /\ calls' = Append(calls, Call("create_billing_profile", "create", outcome, 0))
          /\ group' = IF outcome = "ok"
                      THEN [group EXCEPT !.billing_profile_id = ProfileId, !.poll_attempts = 0]
                      ELSE group
          /\ pc' = IF outcome = "ok" THEN "poll_billing_profile"
                   ELSE IF outcome \in {"no_id", "timeout"} THEN "find_created_profile"
                   ELSE "groups"
    /\ reply' = NoReply
    /\ UNCHANGED <<product, product_cache, create_rest>>

\* the created profile is polled until it can be queried, PollLimit times at most;
\* poll_attempts is not read after the loop and is put back to 0
PollBillingProfile ==
    /\ pc = "poll_billing_profile"
    /\ group.poll_attempts < PollLimit
    /\ \E r \in Replies(ProfileRecordLists) :
       \E got \in {perform_lookup(Sql(<<"P", "R", "O", "F", "I", "L", "E">>, group.account_id), r)} :
          /\ reply' = r
          /\ calls' = Append(calls, Call("find_billing_profiles", "query", Ended(got), 0))
          /\ IF got.raised
             THEN pc' = "crashed" /\ group' = group
             ELSE IF got.response # <<>>
             THEN pc' = "update_account"
                  /\ group' = [group EXCEPT !.billing_profile_id = got.response[1].Id,
                                             !.poll_attempts = 0]
             ELSE IF group.poll_attempts + 1 < PollLimit
             THEN pc' = "poll_billing_profile"
                  /\ group' = [group EXCEPT !.poll_attempts = group.poll_attempts + 1]
             ELSE pc' = "update_account"
                  /\ group' = [group EXCEPT !.poll_attempts = 0]
    /\ UNCHANGED <<product, product_cache, create_rest>>

\* no id from the creation: one query for the profile, the group is left when none is found
FindCreatedProfile ==
    /\ pc = "find_created_profile"
    /\ \E r \in Replies(ProfileRecordLists) :
       \E got \in {perform_lookup(Sql(<<"P", "R", "O", "F", "I", "L", "E">>, group.account_id), r)} :
          /\ reply' = r
          /\ calls' = Append(calls, Call("find_billing_profiles", "query", Ended(got), 0))
          /\ group' = IF Ended(got) # "found" THEN group
                      ELSE [group EXCEPT !.billing_profile_id = got.response[1].Id]
          /\ pc' = IF got.raised THEN "crashed"
                   ELSE IF got.response # <<>> THEN "update_account"
                   ELSE "groups"
    /\ UNCHANGED <<product, product_cache, create_rest>>

\* update_account_billing_profile with its endpoints, as main sees it
UpdateAccount ==
    /\ pc = "update_account"
    /\ \E outcome \in {"ok", "error_code", "timeout", "failed"} :
          /\ calls' = Append(calls, Call("update_account_billing_profile", "update", outcome, 0))
          /\ pc' = IF outcome \in {"ok", "timeout"} THEN "relookup_account" ELSE "groups"
    /\ reply' = NoReply
    /\ UNCHANGED <<group, product, product_cache, create_rest>>

\* the account is read back: the profile has to show on it
RelookupAccount ==
    /\ pc = "relookup_account"
    /\ \E r \in Replies(AccountRecordLists) :
       \E got \in {perform_lookup(Sql(<<"A", "c", "c", "o", "u", "n", "t">>, AccountName), r)} :
          /\ reply' = r
          /\ calls' = Append(calls, Call("perform_lookup", "query", Ended(got), 0))
          /\ IF Ended(got) = "found" /\ got.response[1].BillableBillingProfileId # NoId
             THEN pc' = "contract_number"
                  /\ group' = [group EXCEPT
                                  !.billing_profile_id = got.response[1].BillableBillingProfileId]
             ELSE pc' = "groups" /\ group' = group
    /\ UNCHANGED <<product, product_cache, create_rest>>

NextContractNumber ==
    /\ pc = "contract_number"
    /\ \E r \in Replies({<<>>}) :
       \E got \in {perform_lookup(Sql(<<"C", "O", "N", "T", "R", "A", "C", "T">>, <<"d">>), r)} :
          /\ reply' = r
          /\ calls' = Append(calls, Call("next_contract_number", "query", Ended(got), 0))
          /\ pc' = IF got.raised THEN "groups" ELSE "create_contract"
    /\ UNCHANGED <<group, product, product_cache, create_rest>>

\* create_contract raises RuntimeError for a timeout as for any other error
CreateContract ==
    /\ pc = "create_contract"
    /\ \E outcome \in {"ok", "no_id", "failed"} :
          /\ calls' = Append(calls, Call("create_contract", "create", outcome, 0))
          /\ group' = IF outcome = "ok" THEN [group EXCEPT !.contract_id = ContractId] ELSE group
          /\ pc' = IF outcome = "ok" THEN "create_contract_currency" ELSE "groups"
    /\ reply' = NoReply
    /\ UNCHANGED <<product, product_cache, create_rest>>

CreateContractCurrency ==
    /\ pc = "create_contract_currency"
    /\ \E outcome \in {"ok", "failed"} :
          /\ calls' = Append(calls, Call("create_contract_currency", "create", outcome, 0))
          /\ group' = IF outcome = "ok"
                      THEN [group EXCEPT !.processed_currencies = {Currency}] ELSE group
          /\ pc' = IF outcome = "ok" THEN "billing_product" ELSE "groups"
    /\ reply' = NoReply
    /\ UNCHANGED <<product, product_cache, create_rest>>

\* a variant that keeps an id in the cache and forgets a lookup that found none
CachedWhenFound(cache, product_name, product_id_value) ==
    IF product_id_value = NoId THEN cache
    ELSE [n \in DOMAIN cache \cup {product_name} |->
             IF n = product_name THEN product_id_value ELSE cache[n]]

\* _PRODUCT_CACHE[product_name] = product_id_value
Cached(cache, product_name, product_id_value) ==
    [n \in DOMAIN cache \cup {product_name} |->
        IF n = product_name THEN product_id_value ELSE cache[n]]

\* the id of the first record, None for an error or an empty result
FirstId(got) == IF Ended(got) = "found" THEN got.response[1].Id ELSE NoId

\* get_product_id of the billing identifier product, from the cache
BillingProductCached ==
    /\ pc = "billing_product"
    /\ BillingIdentifierName \in DOMAIN product_cache
    /\ pc' = IF product_cache[BillingIdentifierName] # NoId
             THEN "create_billing_identifier" ELSE "products"
    /\ reply' = NoReply
    /\ UNCHANGED <<calls, group, product, product_cache, create_rest>>

\* ... and by a query: get_product_id catches every error and returns None
BillingProductLookup ==
    /\ pc = "billing_product"
    /\ BillingIdentifierName \notin DOMAIN product_cache
    /\ \E r \in Replies(IdRecordLists({ProductId})) :
       \E got \in {perform_lookup(Sql(<<"P", "r", "o", "d", "u", "c", "t">>, <<"B">>), r)} :
          /\ reply' = r
          /\ calls' = Append(calls, Call("get_product_id", "query", Ended(got), 0))
          /\ product_cache' = Cached(product_cache, BillingIdentifierName, FirstId(got))
          /\ pc' = IF Ended(got) = "found" THEN "create_billing_identifier" ELSE "products"
    /\ UNCHANGED <<group, product, create_rest>>

\* the billing identifier account product: a failure is logged and the group goes on
CreateBillingIdentifier ==
    /\ pc = "create_billing_identifier"
    /\ \E outcome \in {"ok", "timeout", "failed"} :
          /\ calls' = Append(calls, Call("create_account_product", "create", outcome, 0))
          /\ pc' = IF outcome = "timeout" THEN "verify_billing_identifier" ELSE "products"
    /\ reply' = NoReply
    /\ UNCHANGED <<group, product, product_cache, create_rest>>

\* find_account_product in the except clause: its own error ends the run
VerifyBillingIdentifier ==
    /\ pc = "verify_billing_identifier"
    /\ \E r \in Replies(IdRecordLists({<<"9">>})) :
       \E got \in {perform_lookup(Sql(<<"A", "P">>, group.contract_id), r)} :
          /\ reply' = r
          /\ calls' = Append(calls, Call("find_account_product", "query", Ended(got), 0))
          /\ pc' = IF got.raised THEN "crashed" ELSE "products"
    /\ UNCHANGED <<group, product, product_cache, create_rest>>

\* the next (product, currency) group of the contract
BeginProduct ==
    /\ pc = "products"
    /\ \E key \in ProductKeys \ group.done_keys :
       \E product_rows \in ProductRowLists :
          /\ product' = [NoProduct EXCEPT !.key = key, !.rows = product_rows, !.row_no = 1]
          /\ group' = [group EXCEPT !.done_keys = group.done_keys \cup {key}]
    /\ calls' = <<>>
    /\ reply' = NoReply
    /\ pc' = "product_lookup"
    /\ UNCHANGED <<product_cache, create_rest>>

\* no further product group: the summary is printed, the group's variables are done with
EndGroup ==
    /\ pc = "products"
    /\ pc' = "groups"
    /\ group' = NoGroup
    /\ product' = NoProduct
    /\ reply' = NoReply
    /\ calls' = <<>>
    /\ UNCHANGED <<product_cache, create_rest>>

\* after get_product_id: the product is skipped without an id
AfterProductId(product_id) ==
    IF product_id = NoId THEN "products"
    ELSE IF product.key[2] \notin group.processed_currencies THEN "additional_currency"
    ELSE ContractRateStep(product.rows)

ProductCached ==
    /\ pc = "product_lookup"
    /\ product.key[1] \in DOMAIN product_cache
    /\ pc' = AfterProductId(product_cache[product.key[1]])
    /\ reply' = NoReply
    /\ UNCHANGED <<calls, group, product, product_cache, create_rest>>

ProductLookup ==
    /\ pc = "product_lookup"
    /\ product.key[1] \notin DOMAIN product_cache
    /\ \E r \in Replies(IdRecordLists({ProductId})) :
       \E got \in {perform_lookup(Sql(<<"P", "r", "o", "d", "u", "c", "t">>, <<"P">>), r)} :
          /\ reply' = r
          /\ calls' = Append(calls, Call("get_product_id", "query", Ended(got), 0))
          /\ product_cache' = Cached(product_cache, product.key[1], FirstId(got))
          /\ pc' = AfterProductId(FirstId(got))
    /\ UNCHANGED <<group, product, create_rest>>

\* a currency the contract does not have yet; on an error the product is skipped
AdditionalCurrency ==
    /\ pc = "additional_currency"
    /\ \E outcome \in {"ok", "failed"} :
          /\ calls' = Append(calls, Call("create_contract_currency", "create", outcome, 0))
          /\ group' = IF outcome = "ok"
                      THEN [group EXCEPT !.processed_currencies =
                                             group.processed_currencies \cup {product.key[2]}]
                      ELSE group
          /\ pc' = IF outcome = "ok" THEN ContractRateStep(product.rows) ELSE "products"
    /\ reply' = NoReply
    /\ UNCHANGED <<product, product_cache, create_rest>>

\* create_contract_rate; without a contract rate id the product is skipped
CreateContractRate ==
    /\ pc = "create_contract_rate"
    /\ \E outcome \in {"ok", "no_id", "timeout", "failed"} :
       \E id \in (IF outcome = "ok" THEN ContractRateIds ELSE {NoId}) :
          /\ calls' = Append(calls, Call("create_contract_rate", "create", outcome, 0))
          /\ product' = [product EXCEPT !.contract_rate_id = id]
          /\ pc' = IF outcome = "ok" THEN "account_products"
                   ELSE IF outcome = "timeout" THEN "verify_contract_rate"
                   ELSE "products"
    /\ reply' = NoReply
    /\ UNCHANGED <<group, product_cache, create_rest>>

\* a variant that sends the create call again after ApiTimeout
RetryContractRate ==
    /\ pc = "verify_contract_rate"
    /\ \E outcome \in {"ok", "failed"} :
          /\ calls' = Append(calls, Call("create_contract_rate", "create", outcome, 0))
          /\ product' = [product EXCEPT !.contract_rate_id =
                                            IF outcome = "ok" THEN <<"7">> ELSE NoId]
          /\ pc' = IF outcome = "ok" THEN "account_products" ELSE "products"
    /\ reply' = NoReply
    /\ UNCHANGED <<group, product_cache, create_rest>>

\* find_contract_rate in the except clause, after ApiTimeout
VerifyContractRate ==
    /\ pc = "verify_contract_rate"
    /\ \E r \in Replies(IdRecordLists(ContractRateIds)) :
       \E got \in {perform_lookup(Sql(<<"R", "A", "T", "E">>, group.contract_id), r)} :
          /\ reply' = r
          /\ calls' = Append(calls, Call("find_contract_rate", "query", Ended(got), 0))
          /\ product' = [product EXCEPT !.contract_rate_id = FirstId(got)]
          /\ pc' = IF got.raised THEN "crashed"
                   ELSE IF got.response # <<>> THEN "account_products"
                   ELSE "products"
    /\ UNCHANGED <<group, product_cache, create_rest>>

\* pricing-only rows: the contract rate has to exist
FindContractRate ==
    /\ pc = "find_contract_rate"
    /\ \E r \in Replies(IdRecordLists(ContractRateIds)) :
       \E got \in {perform_lookup(Sql(<<"R", "A", "T", "E">>, group.contract_id), r)} :
          /\ reply' = r
          /\ calls' = Append(calls, Call("find_contract_rate", "query", Ended(got), 0))
          /\ product' = [product EXCEPT !.contract_rate_id = FirstId(got)]
          /\ pc' = IF got.raised THEN "crashed"
                   ELSE IF got.response # <<>> THEN "account_products"
                   ELSE "products"
    /\ UNCHANGED <<group, product_cache, create_rest>>

\* the rows that get an account product in the first loop: rate-only rows are passed over
GetsAccountProduct(row) == IsNonPricingOnly(row) /\ ~parse_bool(row.contract_rate_only)

NextRow == [product EXCEPT !.row_no = product.row_no + 1]

PassRow ==
    /\ pc = "account_products"
    /\ product.row_no <= Len(product.rows)
    /\ ~GetsAccountProduct(product.rows[product.row_no])
    /\ product' = NextRow
    /\ reply' = NoReply
    /\ UNCHANGED <<pc, calls, group, product_cache, create_rest>>

\* create_account_product for a row: a failure is logged and the loop goes on
CreateAccountProduct ==
    /\ pc = "account_products"
    /\ product.row_no <= Len(product.rows)
    /\ GetsAccountProduct(product.rows[product.row_no])
    /\ \E outcome \in {"ok", "timeout", "failed"} :
          /\ calls' = Append(calls, Call("create_account_product", "create", outcome, product.row_no))
          /\ product' = IF outcome = "timeout" THEN product ELSE NextRow
          /\ pc' = IF outcome = "timeout" THEN "verify_account_product" ELSE "account_products"
    /\ reply' = NoReply
    /\ UNCHANGED <<group, product_cache, create_rest>>

\* find_account_product after ApiTimeout: found or not, the loop goes on
VerifyAccountProduct ==
    /\ pc = "verify_account_product"
    /\ \E r \in Replies(IdRecordLists({<<"9">>})) :
       \E got \in {perform_lookup(Sql(<<"A", "P">>, group.contract_id), r)} :
          /\ reply' = r
          /\ calls' = Append(calls, Call("find_account_product", "query", Ended(got), product.row_no))
          /\ product' = IF got.raised THEN product ELSE NextRow
          /\ pc' = IF got.raised THEN "crashed" ELSE "account_products"
    /\ UNCHANGED <<group, product_cache, create_rest>>

AccountProductsDone ==
    /\ pc = "account_products"
    /\ product.row_no > Len(product.rows)
    /\ product' = [product EXCEPT !.row_no = 1]
    /\ pc' = "bundle_products"
    /\ reply' = NoReply
    /\ UNCHANGED <<calls, group, product_cache, create_rest>>

PassBundleRow ==
    /\ pc = "bundle_products"
    /\ product.row_no <= Len(product.rows)
    /\ ~IsBundle(product.rows[product.row_no])
    /\ product' = NextRow
    /\ reply' = NoReply
    /\ UNCHANGED <<pc, calls, group, product_cache, create_rest>>

CreateBundleProduct ==
    /\ pc = "bundle_products"
    /\ product.row_no <= Len(product.rows)
    /\ IsBundle(product.rows[product.row_no])
    /\ \E outcome \in {"ok", "timeout", "failed"} :
          /\ calls' = Append(calls, Call("create_account_product", "create", outcome, product.row_no))
          /\ product' = IF outcome = "timeout" THEN product ELSE NextRow
          /\ pc' = IF outcome = "timeout" THEN "verify_bundle_product" ELSE "bundle_products"
    /\ reply' = NoReply
    /\ UNCHANGED <<group, product_cache, create_rest>>

VerifyBundleProduct ==
    /\ pc = "verify_bundle_product"
    /\ \E r \in Replies(IdRecordLists({<<"9">>})) :
       \E got \in {perform_lookup(Sql(<<"A", "P">>, group.contract_id), r)} :
          /\ reply' = r
          /\ calls' = Append(calls, Call("find_account_product", "query", Ended(got), product.row_no))
          /\ product' = IF got.raised THEN product ELSE NextRow
          /\ pc' = IF got.raised THEN "crashed" ELSE "bundle_products"
    /\ UNCHANGED <<group, product_cache, create_rest>>

BundleProductsDone ==
    /\ pc = "bundle_products"
    /\ product.row_no > Len(product.rows)
    /\ pc' = "find_pricing_entries"
    /\ reply' = NoReply
    /\ UNCHANGED <<calls, group, product, product_cache, create_rest>>

\* the pricing of bundle components only: no contract rate, nothing to build
NoContractRate ==
    /\ pc = "find_pricing_entries"
    /\ product.contract_rate_id = NoId
    /\ pc' = "create_pricing"
    /\ reply' = NoReply
    /\ UNCHANGED <<calls, group, product, product_cache, create_rest>>

\* the remote periods of the contract rate, the index over them, the payloads
FindPricingEntries ==
    /\ pc = "find_pricing_entries"
    /\ product.contract_rate_id # NoId
    /\ \E r \in Replies(PricingRecordLists) :
       \E got \in {find_pricing_entries(product.contract_rate_id, r)} :
          /\ reply' = r
          /\ calls' = Append(calls, Call("find_pricing_entries", "query", Ended(got), 0))
          /\ IF got.raised
             THEN pc' = "crashed" /\ product' = product
             ELSE /\ pc' = "create_pricing"
                  /\ \E index \in {PricingIndex(got.response, product.key[2])} :
                     \E built \in {build_pricing_payloads_from_rows(
                                       product.contract_rate_id, product.key[2],
                                       pricing_driving_rows(product.rows), Today, index, Today)} :
                        product' = [product EXCEPT !.existing_pricing_index = index,
                                                   !.pricing_payload_entries = built.payloads,
                                                   !.skipped_existing = built.skipped,
                                                   !.canonical_tiers = built.tiers]
    /\ UNCHANGED <<group, product_cache, create_rest>>

\* a variant that sends one create call for each payload
CreatePricingOneByOne ==
    /\ pc = "create_pricing"
    /\ product.pricing_payload_entries # <<>>
    /\ \E ok \in BOOLEAN :
          calls' = calls \o [k \in DOMAIN product.pricing_payload_entries |->
                               [op |-> "create", kind |-> "create",
                                outcome |-> IF ok THEN "ok" ELSE "failed", row |-> 0,
                                entries |-> <<product.pricing_payload_entries[k]>>, ok |-> ok]]
    /\ pc' = "products"
    /\ reply' = NoReply
    /\ UNCHANGED <<group, product, product_cache, create_rest>>

\* create_pricing_batch with every payload; an error is logged
CreatePricing ==
    /\ pc = "create_pricing"
    /\ product.pricing_payload_entries # <<>>
    /\ \E ok \in BOOLEAN :
          calls' = Append(calls, [op |-> "create", kind |-> "create",
                                  outcome |-> IF ok THEN "ok" ELSE "failed", row |-> 0,
                                  entries |-> product.pricing_payload_entries, ok |-> ok])
    /\ pc' = "products"
    /\ reply' = NoReply
    /\ UNCHANGED <<group, product, product_cache, create_rest>>

NoPricing ==
    /\ pc = "create_pricing"
    /\ product.pricing_payload_entries = <<>>
    /\ pc' = "products"
    /\ reply' = NoReply
    /\ UNCHANGED <<calls, group, product, product_cache, create_rest>>

NextCreate ==
    \/ SkipGroup
    \/ BeginGroup
    \/ EndRun
    \/ AccountLookup
    \/ CreateAccount
    \/ VerifyAccount
    \/ FindBillingProfiles
    \/ GetBillingProfile
    \/ CreateBillingProfile
    \/ PollBillingProfile
    \/ FindCreatedProfile
    \/ UpdateAccount
    \/ RelookupAccount
    \/ NextContractNumber
    \/ CreateContract
    \/ CreateContractCurrency
    \/ BillingProductCached
    \/ BillingProductLookup
    \/ CreateBillingIdentifier
    \/ VerifyBillingIdentifier
    \/ BeginProduct
    \/ EndGroup
    \/ ProductCached
    \/ ProductLookup
    \/ AdditionalCurrency
    \/ CreateContractRate
    \/ VerifyContractRate
    \/ FindContractRate
    \/ PassRow
    \/ CreateAccountProduct
    \/ VerifyAccountProduct
    \/ AccountProductsDone
    \/ PassBundleRow
    \/ CreateBundleProduct
    \/ VerifyBundleProduct
    \/ BundleProductsDone
    \/ NoContractRate
    \/ FindPricingEntries
    \/ CreatePricing
    \/ NoPricing

SpecCreate == InitCreate /\ [][NextCreate]_vars

(***************************************************************************)
(* handle_quantity_change on the rows of a quantity amendment file.  The   *)
(* remote side holds one account product; every step is one remote call.   *)
(***************************************************************************)
LowerChars == <<"a", "b", "c", "d", "e", "f", "g", "h", "i", "j", "k", "l", "m",
                "n", "o", "p", "q", "r", "s", "t", "u", "v", "w", "x", "y", "z">>
UpperChars == <<"A", "B", "C", "D", "E", "F", "G", "H", "I", "J", "K", "L", "M",
                "N", "O", "P", "Q", "R", "S", "T", "U", "V", "W", "X", "Y", "Z">>

UpperChar(c) ==
    IF \E k \in 1..26 : LowerChars[k] = c
    THEN UpperChars[CHOOSE k \in 1..26 : LowerChars[k] = c]
    ELSE c

\* str.upper()
Upper(text) == [k \in DOMAIN text |-> UpperChar(text[k])]

\* str(status): a record without Status gives None
StatusText(status) == IF status = <<>> THEN <<"N", "o", "n", "e">> ELSE status

TxtActive == <<"A", "C", "T", "I", "V", "E">>

\* str(status).upper() != "ACTIVE"
NotActive(status) == Upper(StatusText(status)) # TxtActive

\* the Status values the remote record may carry, none included
Statuses ==
    {<<>>, TxtActive, <<"A", "c", "t", "i", "v", "e">>, <<"a", "c", "t", "i", "v", "e">>,
     <<"I", "N", "A", "C", "T", "I", "V", "E">>, <<"P", "E", "N", "D", "I", "N", "G">>}

\* the quantity cells of the rows
QuantityCells == {<<>>, <<"2">>, <<"0", "5">>, <<"x">>}

\* str(new_quantity), for a quantity written without a point
DecimalText(value) == SignText(value) \o NatText(value.i)

AccountProductId == <<"9">>

\* the quantity of the remote account product before the file is applied
Txt1Unit == <<"1">>

\* the effective-date cell of the rows of the file
TxtRowDate == <<"r">>

\* no contract, or one that starts on no date, on a date of its own or on the
\* effective date of the rows
ContractRecordLists ==
    {<<>>, <<[Id |-> ContractId, StartDate |-> <<>>]>>,
     <<[Id |-> ContractId, StartDate |-> <<"d">>]>>,
     <<[Id |-> ContractId, StartDate |-> TxtRowDate]>>}

\* a variant of the payload that carries the effective date of the row
QuantityPayloadAtRowDate(ap_id, new_quantity, contract_start_date) ==
    [Id |-> ap_id, Quantity |-> new_quantity, ContractModificationDate |-> TxtRowDate]

\* payload = {"Id": ..., "Quantity": ..., "ContractModificationDate": ...}
QuantityPayload(ap_id, new_quantity, contract_start_date) ==
    [Id |-> ap_id, Quantity |-> new_quantity, ContractModificationDate |-> contract_start_date]

\* the variables the quantity flow leaves alone
quantity_rest ==
    <<ledger, next_id, rows_for_group, first_effective_date, existing_pricing, current_row,
      result, tier_vars, decimal_vars, group, product, amendment_vars>>

InitQuantity ==
    /\ pc = "quantity_rows"
    /\ ReconcilerIdle
    /\ TiersIdle
    /\ DecimalIdle
    /\ CreateIdle
    /\ AmendmentsIdle
    /\ quantity_change = NoQuantityChange
    /\ \E status \in Statuses :
          account_product = [Id |-> AccountProductId, Status |-> status, Quantity |-> Txt1Unit]

\* Decimal(quantity_str) raises: the row is skipped
InvalidQuantity ==
    /\ pc = "quantity_rows"
    /\ \E quantity_str \in QuantityCells :
          /\ ~Decimal(quantity_str).ok
          /\ quantity_change' = [NoQuantityChange EXCEPT !.quantity = quantity_str]
    /\ calls' = <<>>
    /\ reply' = NoReply
    /\ UNCHANGED <<pc, account_product, product_cache, quantity_rest>>

BeginQuantityRow ==
    /\ pc = "quantity_rows"
    /\ \E quantity_str \in QuantityCells :
       \E new_quantity \in {Decimal(quantity_str)} :
          /\ new_quantity.ok
          /\ quantity_change' = [NoQuantityChange EXCEPT
                                    !.quantity = DecimalText(new_quantity.value)]
    /\ calls' = <<>>
    /\ reply' = NoReply
    /\ pc' = "quantity_account"
    /\ UNCHANGED <<account_product, product_cache, quantity_rest>>

\* the file has no further quantity row
EndQuantityRows ==
    /\ pc = "quantity_rows"
    /\ pc' = "finished"
    /\ UNCHANGED <<calls, reply, quantity_vars, product_cache, quantity_rest>>

\* the account lookup is in a try; a row without a CPQ contract id is skipped after it
QuantityAccountLookupOf(cpq_contract_ids) ==
    /\ pc = "quantity_account"
    /\ \E r \in Replies(AccountRecordLists) :
       \E cpq_contract_id \in cpq_contract_ids :
       \E got \in {perform_lookup(Sql(<<"A", "c", "c", "o", "u", "n", "t">>, AccountName), r)} :
          /\ reply' = r
          /\ calls' = Append(calls, Call("perform_lookup", "query", Ended(got), 0))
          /\ pc' = IF Ended(got) = "found" /\ cpq_contract_id # <<>>
                   THEN "quantity_contract" ELSE "quantity_rows"
    /\ UNCHANGED <<quantity_vars, product_cache, quantity_rest>>

QuantityAccountLookup == QuantityAccountLookupOf({<<>>, <<"Q">>})

\* lookup_contract_id_by_cpq_id is not in a try: an error ends the run
QuantityContractLookup ==
    /\ pc = "quantity_contract"
    /\ \E r \in Replies(ContractRecordLists) :
       \E got \in {perform_lookup(Sql(<<"C", "O", "N", "T", "R", "A", "C", "T">>, <<"Q">>), r)} :
          /\ reply' = r
          /\ calls' = Append(calls, Call("lookup_contract_id_by_cpq_id", "query", Ended(got), 0))
          /\ quantity_change' = IF Ended(got) # "found" THEN quantity_change
                                ELSE [quantity_change EXCEPT
                                         !.contract_start_date = got.response[1].StartDate]
          /\ pc' = IF got.raised THEN "crashed"
                   ELSE IF got.response # <<>> /\ got.response[1].StartDate # <<>>
                   THEN "quantity_product"
                   ELSE "quantity_rows"
    /\ UNCHANGED <<account_product, product_cache, quantity_rest>>

QuantityProductCached ==
    /\ pc = "quantity_product"
    /\ ProductName \in DOMAIN product_cache
    /\ pc' = IF product_cache[ProductName] # NoId THEN "find_account_product" ELSE "quantity_rows"
    /\ reply' = NoReply
    /\ UNCHANGED <<calls, quantity_vars, product_cache, quantity_rest>>

QuantityProductLookup ==
    /\ pc = "quantity_product"
    /\ ProductName \notin DOMAIN product_cache
    /\ \E r \in Replies(IdRecordLists({ProductId})) :
       \E got \in {perform_lookup(Sql(<<"P", "r", "o", "d", "u", "c", "t">>, <<"P">>), r)} :
          /\ reply' = r
          /\ calls' = Append(calls, Call("get_product_id", "query", Ended(got), 0))
          /\ product_cache' = Cached(product_cache, ProductName, FirstId(got))
          /\ pc' = IF Ended(got) = "found" THEN "find_account_product" ELSE "quantity_rows"
    /\ UNCHANGED <<quantity_vars, quantity_rest>>

\* find_account_product: ap_id is the id of the first record
FindAccountProduct ==
    /\ pc = "find_account_product"
    /\ \E r \in Replies(IdRecordLists({account_product.Id})) :
       \E got \in {perform_lookup(Sql(<<"A", "P">>, ContractId), r)} :
          /\ reply' = r
          /\ calls' = Append(calls, Call("find_account_product", "query", Ended(got), 0))
          /\ quantity_change' = [quantity_change EXCEPT !.ap_id = FirstId(got)]
          /\ pc' = IF got.raised THEN "crashed"
                   ELSE IF got.response # <<>> THEN "get_account_product"
                   ELSE "quantity_rows"
    /\ UNCHANGED <<account_product, product_cache, quantity_rest>>

\* a variant that goes on to the update whatever the status is
GetAccountProductAnyStatus ==
    /\ pc = "get_account_product"
    /\ \E r \in Replies({<<>>, <<[Id |-> account_product.Id, Status |-> account_product.Status]>>}) :
       \E got \in {perform_lookup(Sql(<<"A", "P">>, quantity_change.ap_id), r)} :
          /\ reply' = r
          /\ calls' = Append(calls, Call("get_account_product", "query", Ended(got), 0))
          /\ IF got.raised
             THEN pc' = "crashed" /\ quantity_change' = quantity_change
             ELSE IF got.response = <<>>
             THEN pc' = "quantity_rows" /\ quantity_change' = quantity_change
             ELSE /\ quantity_change' = [quantity_change EXCEPT !.status = got.response[1].Status]
                  /\ pc' = "update_account_product"
    /\ UNCHANGED <<account_product, product_cache, quantity_rest>>

\* get_account_product and the test of the status it returns
GetAccountProduct ==
    /\ pc = "get_account_product"
    /\ \E r \in Replies({<<>>, <<[Id |-> account_product.Id, Status |-> account_product.Status]>>}) :
       \E got \in {perform_lookup(Sql(<<"A", "P">>, quantity_change.ap_id), r)} :
          /\ reply' = r
          /\ calls' = Append(calls, Call("get_account_product", "query", Ended(got), 0))
          /\ IF got.raised
             THEN pc' = "crashed" /\ quantity_change' = quantity_change
             ELSE IF got.response = <<>>
             THEN pc' = "quantity_rows" /\ quantity_change' = quantity_change
             ELSE /\ quantity_change' = [quantity_change EXCEPT !.status = got.response[1].Status]
                  /\ pc' = IF NotActive(got.response[1].Status)
                           THEN "quantity_rows" ELSE "update_account_product"
    /\ UNCHANGED <<account_product, product_cache, quantity_rest>>

\* update_account_product: the remote record takes the quantity, or the call fails
UpdateAccountProduct ==
    /\ pc = "update_account_product"
    /\ \E outcome \in {"ok", "failed"} :
          /\ calls' = Append(calls,
                 Call("update_account_product", "update", outcome, 0)
                 @@ [payload |-> QuantityPayload(quantity_change.ap_id, quantity_change.quantity,
                                                 quantity_change.contract_start_date)])
          /\ account_product' = IF outcome = "ok" /\ account_product.Id = quantity_change.ap_id
                                THEN [account_product EXCEPT !.Quantity = quantity_change.quantity]
                                ELSE account_product
    /\ pc' = "quantity_rows"
    /\ reply' = NoReply
    /\ UNCHANGED <<quantity_change, product_cache, quantity_rest>>

NextQuantity ==
    \/ InvalidQuantity
    \/ BeginQuantityRow
    \/ EndQuantityRows
    \/ QuantityAccountLookup
    \/ QuantityContractLookup
    \/ QuantityProductCached
    \/ QuantityProductLookup
    \/ FindAccountProduct
    \/ GetAccountProduct
    \/ UpdateAccountProduct

SpecQuantity == InitQuantity /\ [][NextQuantity]_vars

(***************************************************************************)
(* build_pricing_payloads_from_rows on the rows of a product group, one    *)
(* row of its loop a step; first_effective_date holds the fallback date    *)
(***************************************************************************)
\* 0..5, then a slot from -2 to 5, then unlimited: the second tier sorts first
ReorderedSlots ==
    <<Slot(<<>>, Txt5, Txt2), Slot(TxtMinus2, Txt5, Txt2), Slot(<<>>, TxtUnlimited, Txt1)>>

\* 5:1;3:2;7:1: the second tier ends below its start and sorts last
CrossedLegacy == Join(<< <<"5", ":", "1">>, <<"3", ":", "2">>, <<"7", ":", "1">> >>)

\* the rows a group may hold
BuilderRows ==
    <<Row(DateCell(1), EmptyCell, EmptyCell, TwoTierSlots, <<>>),
      Row(DateCell(2), EmptyCell, DateCell(3), <<>>, OneTierLegacy),
      Row(DateCell(1), EmptyCell, EmptyCell, ReorderedSlots, <<>>),
      Row(DateCell(1), EmptyCell, EmptyCell, <<>>, DescendingLegacy),
      Row(DateCell(2), EmptyCell, EmptyCell, <<>>, CrossedLegacy),
      Row(EmptyCell, EmptyCell, EmptyCell, <<>>, InvertedLegacy)>>

\* rows whose effective-date cell is not a plain date: a start date, or none
UndatedRows ==
    {Row(BadCell, DateCell(2), EmptyCell, TwoTierSlots, <<>>),
     Row(EmptyCell, DateCell(2), EmptyCell, <<>>, OneTierLegacy),
     Row(IsoCell(1), DateCell(2), EmptyCell, <<>>, OneTierLegacy),
     Row(IsoCell(2), EmptyCell, EmptyCell, <<>>, OneTierLegacy),
     Row(BadCell, BadCell, EmptyCell, TwoTierSlots, <<>>),
     Row(DateCell(1), DateCell(2), EmptyCell, <<>>, OneTierLegacy)}

\* the two-tier ladder of day 1 and the same bands again on day 2
RedatedRows ==
    <<BuilderRows[1], Row(DateCell(2), EmptyCell, EmptyCell, TwoTierSlots, <<>>)>>

BuilderRowLists ==
    {[k \in DOMAIN ix |-> BuilderRows[ix[k]]] : ix \in SeqsUpTo(DOMAIN BuilderRows, MaxRows)}
    \cup {<<row>> : row \in UndatedRows}
    \cup {RedatedRows}

\* fallback_start_date: None, or the date the caller gives
FallbackDates == {NoDate, 1}

\* no index, or the index over the periods found for the contract rate
BuilderIndexes ==
    {NoIndex} \cup {PricingIndex(records, Currency) : records \in PricingRecordLists}

InitPayloads ==
    /\ pc = "payload_rows"
    /\ product \in {[NoProduct EXCEPT !.key = <<ProductName, Currency>>,
                                      !.contract_rate_id = <<"7">>,
                                      !.rows = rows,
                                      !.existing_pricing_index = index] :
                       rows \in BuilderRowLists, index \in BuilderIndexes}
    /\ group = NoGroup
    /\ product_cache = EmptyCache
    /\ reply = NoReply
    /\ first_effective_date \in FallbackDates
    /\ ledger = {}
    /\ next_id = 1
    /\ rows_for_group = <<>>
    /\ existing_pricing = {}
    /\ current_row = NoRow
    /\ calls = <<>>
    /\ result = "none"
    /\ TiersIdle
    /\ DecimalIdle
    /\ QuantityIdle
    /\ AmendmentsIdle

\* the body of `for row in rows_for_group`: the row's ladder, its payloads
\* and skipped tiers added to the lists
BuildRow ==
    /\ pc = "payload_rows"
    /\ product.row_no < Len(product.rows)
    /\ \E row \in {product.rows[product.row_no + 1]} :
       \E got \in {RowPayloads(row, product.contract_rate_id, product.key[2], first_effective_date,
                               product.existing_pricing_index, Today)} :
          /\ pricing_row' = row
          /\ ladder' = got.tiers
          /\ \E after \in {AfterRow([payloads |-> product.pricing_payload_entries,
                                     skipped |-> product.skipped_existing,
                                     tiers |-> product.canonical_tiers], got)} :
                product' = [product EXCEPT !.row_no = @ + 1,
                                           !.pricing_payload_entries = after.payloads,
                                           !.skipped_existing = after.skipped,
                                           !.canonical_tiers = after.tiers]
    /\ UNCHANGED <<pc, group, product_cache, reply, reconciler_vars, decimal_vars, quantity_vars,
                   amendment_vars>>

\* the loop is over: the three lists are returned
ReturnPayloads ==
    /\ pc = "payload_rows"
    /\ product.row_no = Len(product.rows)
    /\ pc' = "payloads_built"
    /\ UNCHANGED <<reconciler_vars, tier_vars, decimal_vars, flow_vars>>

NextPayloads == BuildRow \/ ReturnPayloads

SpecPayloads == InitPayloads /\ [][NextPayloads]_vars

(***************************************************************************)
(* process_amendments on the rows of an amendment file: the rows are put   *)
(* on the quantity list and the price list, the quantity rows are handled  *)
(* one by one, then the price rows group by group.  Every step is one      *)
(* remote call; calls holds the calls of the row or group in progress.     *)
(***************************************************************************)
MaxFile == 2

LowerChar(c) ==
    IF \E k \in 1..26 : UpperChars[k] = c
    THEN LowerChars[CHOOSE k \in 1..26 : UpperChars[k] = c]
    ELSE c

\* str.lower()
Lower(text) == [k \in DOMAIN text |-> LowerChar(text[k])]

TxtQuantityChange == <<"q", "u", "a", "n", "t", "i", "t", "y", " ", "c", "h", "a", "n", "g", "e">>
TxtPriceChange == <<"p", "r", "i", "c", "e", " ", "c", "h", "a", "n", "g", "e">>
TxtQuantityAndPriceChange ==
    <<"q", "u", "a", "n", "t", "i", "t", "y", " ", "a", "n", "d", " ", "p", "r", "i", "c", "e", " ", "c", "h", "a", "n", "g", "e">>

\* the action cells as a file writes them
CellQuantityChange == <<"Q", "u", "a", "n", "t", "i", "t", "y", " ", "C", "h", "a", "n", "g", "e">>
CellPriceChange == <<"P", "r", "i", "c", "e", " ", "C", "h", "a", "n", "g", "e">>
CellQuantityAndPriceChange ==
    <<"Q", "u", "a", "n", "t", "i", "t", "y", " ", "a", "n", "d", " ", "P", "r", "i", "c", "e", " ", "C", "h", "a", "n", "g", "e">>
CellRenewal == <<"R", "e", "n", "e", "w", "a", "l">>

CpqContractId == <<"Q">>

\* a row of an amendment file: the pricing cells, the action, the cells of the key
AmendmentRow(action, currency_code, cpq_contract_id, pricing) ==
    pricing @@ [action |-> action, currency_code |-> currency_code,
                cpq_contract_id |-> cpq_contract_id, quantity |-> Txt2]

AmendmentFileRows ==
    {AmendmentRow(CellQuantityChange, Currency, CpqContractId, DatedRows[1]),
     AmendmentRow(CellPriceChange, Currency, CpqContractId, DatedRows[2]),
     AmendmentRow(CellQuantityAndPriceChange, Currency, CpqContractId, DatedRows[1]),
     AmendmentRow(CellPriceChange, "", CpqContractId, DatedRows[2]),
     AmendmentRow(CellPriceChange, Currency, <<>>, DatedRows[2]),
     AmendmentRow(CellPriceChange, Currency, CpqContractId,
                  Row(DateCell(2), EmptyCell, EmptyCell, <<>>, InvertedLegacy)),
     AmendmentRow(CellPriceChange, Currency, CpqContractId,
                  Row(BadCell, DateCell(1), EmptyCell, <<>>, OneTierLegacy)),
     AmendmentRow(CellRenewal, Currency, CpqContractId, DatedRows[1])}

\* action = (row.get(args.action_column) or "").strip().lower()
IsQuantityRow(row) == Lower(row.action) \in {TxtQuantityChange, TxtQuantityAndPriceChange}
IsPriceRow(row) == Lower(row.action) \in {TxtPriceChange, TxtQuantityAndPriceChange}

\* the cells of the key that differ from row to row: currency and CPQ contract id
PriceKey(row) == <<row.currency_code, row.cpq_contract_id>>

\* the keys of the rows in the order in which they first appear
RECURSIVE GroupKeys(_, _)
GroupKeys(price_rows, keys) ==
    IF price_rows = <<>> THEN keys
    ELSE GroupKeys(Tail(price_rows),
                   IF \E k \in DOMAIN keys : keys[k] = PriceKey(Head(price_rows))
                   THEN keys ELSE Append(keys, PriceKey(Head(price_rows))))

\* groups[key].append(row), as a list of the dict's items
PriceGroups(price_rows) ==
    [k \in DOMAIN GroupKeys(price_rows, <<>>) |->
        [key |-> GroupKeys(price_rows, <<>>)[k],
         rows |-> SelectSeq(price_rows,
                            LAMBDA row : PriceKey(row) = GroupKeys(price_rows, <<>>)[k])]]

\* a variant that handles the price rows before the quantity rows
PriceFirst(phase) ==
    IF phase = "dispatch" THEN "price_groups"
    ELSE IF phase = "price" THEN "quantity_rows"
    ELSE "amendments_done"

\* quantity first, then price: where process_amendments goes on after a phase
PhaseAfter(phase) ==
    IF phase = "dispatch" THEN "quantity_rows"
    ELSE IF phase = "quantity" THEN "price_groups"
    ELSE "amendments_done"

\* the variables the lookups of a price-change group leave alone
price_lookup_rest ==
    <<ledger, next_id, rows_for_group, first_effective_date, existing_pricing, current_row,
      tier_vars, decimal_vars, group, product, quantity_vars, amendment_vars>>

InitAmendments ==
    /\ pc = "amendments"
    /\ amendments \in {[NoAmendments EXCEPT !.rows = rows] :
                          rows \in SeqsUpTo(AmendmentFileRows, MaxFile)}
    /\ ledger \in {{}, CreateFlowLedger(<<DatedRows[1]>>)}
    /\ next_id = Cardinality(ledger) + 1
    /\ rows_for_group = <<>>
    /\ first_effective_date = NoDate
    /\ existing_pricing = {}
    /\ current_row = NoRow
    /\ calls = <<>>
    /\ result = "none"
    /\ TiersIdle
    /\ DecimalIdle
    /\ CreateIdle
    /\ quantity_change = NoQuantityChange
    /\ account_product = [Id |-> AccountProductId, Status |-> TxtActive, Quantity |-> Txt1Unit]

\* the loop over the rows of the file, and the grouping of the price rows by key
ProcessAmendments ==
    /\ pc = "amendments"
    /\ \E price_rows \in {SelectSeq(amendments.rows, IsPriceRow)} :
          amendments' = [amendments EXCEPT
                            !.quantity_rows = SelectSeq(amendments.rows, IsQuantityRow),
                            !.price_rows = price_rows,
                            !.groups = PriceGroups(price_rows)]
    /\ pc' = PhaseAfter("dispatch")
    /\ UNCHANGED <<reconciler_vars, tier_vars, decimal_vars, create_vars, quantity_vars>>

\* handle_quantity_change on the next quantity row, up to the account lookup
HandleQuantityRow ==
    /\ pc = "quantity_rows"
    /\ amendments.row_no < Len(amendments.quantity_rows)
    /\ \E new_quantity \in {Decimal(amendments.quantity_rows[amendments.row_no + 1].quantity)} :
          IF new_quantity.ok
          THEN /\ quantity_change' = [NoQuantityChange EXCEPT
                                         !.quantity = DecimalText(new_quantity.value)]
               /\ pc' = "quantity_account"
          ELSE /\ quantity_change' = NoQuantityChange
               /\ pc' = pc
    /\ amendments' = [amendments EXCEPT !.row_no = @ + 1]
    /\ calls' = <<>>
    /\ reply' = NoReply
    /\ UNCHANGED <<ledger, next_id, rows_for_group, first_effective_date, existing_pricing,
                   current_row, result, tier_vars, decimal_vars, group, product,
                   product_cache, account_product>>

AmendmentQuantityAccountLookup ==
    QuantityAccountLookupOf({amendments.quantity_rows[amendments.row_no].cpq_contract_id})

\* the quantity rows are done
QuantityRowsDone ==
    /\ pc = "quantity_rows"
    /\ amendments.row_no = Len(amendments.quantity_rows)
    /\ pc' = PhaseAfter("quantity")
    /\ quantity_change' = NoQuantityChange
    /\ calls' = <<>>
    /\ reply' = NoReply
    /\ UNCHANGED <<ledger, next_id, rows_for_group, first_effective_date, existing_pricing,
                   current_row, result, tier_vars, decimal_vars, group, product,
                   product_cache, account_product, amendment_vars>>

\* apply_price_change_for_group on the next group, up to the account lookup:
\* a key without currency or without CPQ contract id is skipped
BeginPriceGroup ==
    /\ pc = "price_groups"
    /\ amendments.group_no < Len(amendments.groups)
    /\ \E key \in {amendments.groups[amendments.group_no + 1].key} :
          IF key[1] = "" \/ key[2] = <<>>
          THEN pc' = pc /\ result' = "skipped"
          ELSE pc' = "price_account" /\ result' = "none"
    /\ amendments' = [amendments EXCEPT !.group_no = @ + 1]
    /\ rows_for_group' = <<>>
    /\ first_effective_date' = NoDate
    /\ existing_pricing' = {}
    /\ current_row' = NoRow
    /\ calls' = <<>>
    /\ reply' = NoReply
    /\ UNCHANGED <<ledger, next_id, tier_vars, decimal_vars, group, product, product_cache,
                   quantity_vars>>

\* a variant of the lookup after which the group goes on whatever was found
PriceLookupGoingOn(op, sql, record_lists, caught, found) ==
    \E r \in Replies(record_lists) :
    \E got \in {perform_lookup(sql, r)} :
       /\ reply' = r
       /\ calls' = Append(calls, Call(op, "query", Ended(got), 0))
       /\ pc' = found
       /\ result' = result

\* a lookup of apply_price_change_for_group: the group is skipped when nothing
\* is found, and the run ends when the lookup raises and nothing catches it
PriceLookup(op, sql, record_lists, caught, found) ==
    \E r \in Replies(record_lists) :
    \E got \in {perform_lookup(sql, r)} :
       /\ reply' = r
       /\ calls' = Append(calls, Call(op, "query", Ended(got), 0))
       /\ IF got.raised /\ ~caught THEN pc' = "crashed" /\ result' = result
          ELSE IF Ended(got) = "found" THEN pc' = found /\ result' = result
          ELSE pc' = "price_groups" /\ result' = "skipped"

\* lookup_account_id_by_name: the lookup is in a try
PriceAccountLookup ==
    /\ pc = "price_account"
    /\ PriceLookup("lookup_account_id_by_name", Sql(<<"A", "c", "c", "o", "u", "n", "t">>, AccountName),
                   AccountRecordLists, TRUE, "price_contract")
    /\ UNCHANGED <<product_cache, price_lookup_rest>>

PriceContractLookup ==
    /\ pc = "price_contract"
    /\ PriceLookup("lookup_contract_id_by_name", Sql(<<"C", "O", "N", "T", "R", "A", "C", "T">>, CpqContractId),
                   IdRecordLists({ContractId}), FALSE, "price_product")
    /\ UNCHANGED <<product_cache, price_lookup_rest>>

\* get_product_id finds the name in the cache
PriceProductCached ==
    /\ pc = "price_product"
    /\ ProductName \in DOMAIN product_cache
    /\ IF product_cache[ProductName] # NoId
       THEN pc' = "price_contract_rate" /\ result' = result
       ELSE pc' = "price_groups" /\ result' = "skipped"
    /\ reply' = NoReply
    /\ UNCHANGED <<calls, product_cache, price_lookup_rest>>

\* get_product_id looks the name up and caches what it got
PriceProductLookup ==
    /\ pc = "price_product"
    /\ ProductName \notin DOMAIN product_cache
    /\ \E r \in Replies(IdRecordLists({ProductId})) :
       \E got \in {perform_lookup(Sql(<<"P", "r", "o", "d", "u", "c", "t">>, <<"P">>), r)} :
          /\ reply' = r
          /\ calls' = Append(calls, Call("get_product_id", "query", Ended(got), 0))
          /\ product_cache' = Cached(product_cache, ProductName, FirstId(got))
          /\ IF Ended(got) = "found" THEN pc' = "price_contract_rate" /\ result' = result
             ELSE pc' = "price_groups" /\ result' = "skipped"
    /\ UNCHANGED price_lookup_rest

\* with the contract rate found the group goes to apply_price_changes_to_contract_rate
PriceContractRateLookup ==
    /\ pc = "price_contract_rate"
    /\ PriceLookup("lookup_contract_rate_id", Sql(<<"C", "O", "N", "T", "R", "A", "C", "T", "_", "R", "A", "T", "E">>, ContractId),
                   IdRecordLists({<<"7">>}), FALSE, "idle")
    /\ UNCHANGED <<product_cache, price_lookup_rest>>

\* the rows of the group in progress
GroupRows == amendments.groups[amendments.group_no].rows

SpliceInvalid == BeginInvalidOf({GroupRows})

SpliceFetch == BeginFetchOf({GroupRows})

SpliceFetchFails == FetchFailsOf({GroupRows})

\* apply_price_change_for_group returns to the loop over the groups
NextPriceGroup ==
    /\ pc = "finished"
    /\ pc' = "price_groups"
    /\ UNCHANGED <<reconciler_vars, tier_vars, decimal_vars, flow_vars>>

\* the groups are done
PriceGroupsDone ==
    /\ pc = "price_groups"
    /\ amendments.group_no = Len(amendments.groups)
    /\ pc' = PhaseAfter("price")
    /\ UNCHANGED <<reconciler_vars, tier_vars, decimal_vars, flow_vars>>

NextAmendments ==
    \/ ProcessAmendments
    \/ HandleQuantityRow
    \/ AmendmentQuantityAccountLookup
    \/ QuantityContractLookup
    \/ QuantityProductCached
    \/ QuantityProductLookup
    \/ FindAccountProduct
    \/ GetAccountProduct
    \/ UpdateAccountProduct
    \/ QuantityRowsDone
    \/ BeginPriceGroup
    \/ PriceAccountLookup
    \/ PriceContractLookup
    \/ PriceProductCached
    \/ PriceProductLookup
    \/ PriceContractRateLookup
    \/ SpliceInvalid
    \/ SpliceFetch
    \/ SpliceFetchFails
    \/ ShortenOk
    \/ ShortenFail
    \/ ShortenSkip
    \/ DeleteOk
    \/ DeleteFail
    \/ DeleteSkip
    \/ CreateOk
    \/ CreateFail
    \/ CreateSkip
    \/ NextPriceGroup
    \/ PriceGroupsDone

SpecAmendments == InitAmendments /\ [][NextAmendments]_vars

(***************************************************************************)
(* Properties of the price-change splice                                   *)
(***************************************************************************)
EffectiveOf(p) == parse_iso_to_date(p.EffectiveDate)

EndOf(p) == parse_iso_to_date(p.EndDate)

\* the group went through with every remote call succeeding
Succeeded == pc = "finished" /\ result = "done"

\* d lies in the interval [effectiveDate, endDate) of p, open without an end date
Covers(p, d) == EffectiveOf(p) <= d /\ (EndOf(p) = NoDate \/ d < EndOf(p))

\* the days a period of the model can cover: the cut date of day 1 up to the last day
Calendar == 0..MaxDay

SameBand(p, q) == p.LowerBand = q.LowerBand /\ p.UpperBand = q.UpperBand

\* the rows of the group have effective dates that differ from one another
DistinctDates ==
    \A a, b \in DOMAIN rows_for_group :
        a # b => _sort_key(rows_for_group[a]) # _sort_key(rows_for_group[b])

\* C1: after a splice whose remote calls all succeeded, for a group of one row
\* or of several rows of different effective dates, no two Pricing Periods
\* left in the ledger for the pair have overlapping [effectiveDate, endDate)
\* intervals.  A ladder is one period per tier, so the periods compared are
\* those of one band: two periods of different bands of one ladder share their
\* interval by construction.
C1_NoOverlap ==
    (Succeeded /\ DistinctDates) =>
        \A p, q \in ledger :
            (p.Id # q.Id /\ SameBand(p, q)) => ~(\E d \in Calendar : Covers(p, d) /\ Covers(q, d))

\* a pre-existing period was active at the first effective date
WasActive(p) ==
    /\ EffectiveOf(p) < first_effective_date
    /\ (EndOf(p) = NoDate \/ EndOf(p) >= first_effective_date)

\* C2: after a successful splice every pre-existing period that was active at
\* firstEffectiveDate ends the day before it.
C2_ActiveShortened ==
    Succeeded =>
        \A p \in existing_pricing :
            WasActive(p) =>
                \E q \in ledger : q.Id = p.Id /\ EndOf(q) = first_effective_date - 1

\* C3: after a successful splice the [effectiveDate, endDate) intervals of the
\* remaining periods leave no gap: a day after the start of one period and
\* before the start of another is covered by some period.
C3_NoGap ==
    Succeeded =>
        \A d \in Calendar :
            ((\E p \in ledger : EffectiveOf(p) < d) /\ (\E p \in ledger : d < EffectiveOf(p)))
                => \E p \in ledger : Covers(p, d)

\* C4: a create call is issued only after the shorten update and the delete
\* call, each when needed, have succeeded; a failed shorten or delete aborts
\* the group, which then issues no create.
C4_CreateAfterShortenAndDelete ==
    /\ \A k \in DOMAIN calls :
          calls[k].op = "create" =>
              /\ \A j \in 1..(k - 1) : calls[j].ok
              /\ NeedsShorten(current_row, first_effective_date) =>
                    \E j \in 1..(k - 1) : calls[j].op = "update"
              /\ ToDeleteIds(existing_pricing, first_effective_date) # {} =>
                    \E j \in 1..(k - 1) : calls[j].op = "delete"
    /\ (\E j \in DOMAIN calls : calls[j].op \in {"update", "delete"} /\ ~calls[j].ok) =>
          /\ pc = "finished"
          /\ result = "aborted"
          /\ \A k \in DOMAIN calls : calls[k].op # "create"

\* a shorten, a delete and a create were issued in that order and succeeded
C4_Witness ==
    /\ Succeeded
    /\ Len(calls) = 3
    /\ calls[1].op = "update" /\ calls[2].op = "delete" /\ calls[3].op = "create"
    /\ \A k \in 1..3 : calls[k].ok

\* C5: a successful splice deletes every pre-existing period effective on or
\* after firstEffectiveDate and none effective before it.
C5_DeletesFromFirstOn ==
    Succeeded =>
        \A p \in existing_pricing :
            (EffectiveOf(p) >= first_effective_date) <=> (\A q \in ledger : q.Id # p.Id)

\* one pre-existing period was deleted and another one kept
C5_Witness ==
    /\ Succeeded
    /\ \E p \in existing_pricing :
          EffectiveOf(p) >= first_effective_date /\ (\A q \in ledger : q.Id # p.Id)
    /\ \E p \in existing_pricing :
          EffectiveOf(p) < first_effective_date /\ (\E q \in ledger : q.Id = p.Id)

\* C6: an update carries the id of a pre-existing period and a new endDate and
\* nothing else; the bands, the rate and the effective date of every
\* pre-existing period still in the ledger are what they were.
C6_UpdateOnlyEndDate ==
    /\ \A k \in DOMAIN calls :
          calls[k].op = "update" =>
              /\ DOMAIN calls[k].payload = {"Id", "EndDate"}
              /\ \E p \in existing_pricing : p.Id = calls[k].payload.Id
    /\ \A p \in existing_pricing :
          \A q \in ledger :
              q.Id = p.Id =>
                  /\ q.LowerBand = p.LowerBand
                  /\ q.UpperBand = p.UpperBand
                  /\ q.Rate = p.Rate
                  /\ q.EffectiveDate = p.EffectiveDate

\* an update went through and changed the end date of a pre-existing period
C6_Witness ==
    /\ \E k \in DOMAIN calls : calls[k].op = "update" /\ calls[k].ok
    /\ \E p \in existing_pricing :
          \E q \in ledger : q.Id = p.Id /\ q.EndDate # p.EndDate

(***************************************************************************)
(* Properties of the canonical ladder                                      *)
(***************************************************************************)
\* C7: in a canonical ladder of two or more tiers each tier starts one
\* TIER_INCREMENT above the upper bound of the tier before it.
C7_Contiguous ==
    pc = "built" =>
        \A i \in 1..(Len(ladder) - 1) :
            /\ ladder[i].upper # None
            /\ DecEq(ladder[i + 1].lower, AddIncrement(ladder[i].upper))

SlotFilled(slot) == ~(slot.from_qty = <<>> /\ slot.to_qty = <<>> /\ slot.rate = <<>>)

\* a slot of the row that reads as an unlimited tier
SlotUnlimited(slot) == SlotFilled(slot) /\ slot.to_qty \in {<<>>, TxtUnlimited}

\* an entry of the legacy column that reads as an unlimited tier
EntryUnlimited(entry) == Len(entry) >= 3 /\ SubSeq(entry, 1, 3) = <<"-", "1", ":">>

\* the filled places of the input up to and including its first unlimited one
UpToUnlimited(filled, unlimited) ==
    {k \in DOMAIN filled :
        filled[k] /\ \A j \in 1..(k - 1) : ~unlimited[j]}

SlotsUpToUnlimited(slots) ==
    UpToUnlimited([k \in DOMAIN slots |-> SlotFilled(slots[k])],
                  [k \in DOMAIN slots |-> SlotUnlimited(slots[k])])

EntriesUpToUnlimited(parts) ==
    UpToUnlimited([k \in DOMAIN parts |-> TRUE],
                  [k \in DOMAIN parts |-> EntryUnlimited(parts[k])])

\* C8: a canonical ladder has at most one tier without an upper bound, and
\* that tier is its last; it holds no tier that follows an unlimited tier in
\* the input it was built from, the slots or the legacy column.
C8_UnlimitedLast ==
    pc = "built" =>
        /\ \A i \in 1..(Len(ladder) - 1) : ladder[i].upper # None
        /\ IF parse_structured_pricing_tiers(pricing_row) # <<>>
           THEN Len(ladder) <= Cardinality(SlotsUpToUnlimited(pricing_row.slots))
           ELSE Len(ladder) <= Cardinality(EntriesUpToUnlimited(Split(pricing_row.tiers, ";")))

\* a legacy column whose unlimited entry is followed by another entry
C8_Witness ==
    /\ pc = "built"
    /\ Len(parse_legacy_pricing_tiers(pricing_row.tiers)) = 2
    /\ parse_legacy_pricing_tiers(pricing_row.tiers)[1].upper = None
    /\ Len(ladder) = 1
    /\ ladder[1].upper = None

\* C9: every tier of a canonical ladder starts at 0 or above and ends, when it
\* has an upper bound, at or above its lower bound.
C9_BoundsOrdered ==
    pc = "built" =>
        \A i \in DOMAIN ladder :
            /\ ~DecLt(ladder[i].lower, Zero)
            /\ ladder[i].upper # None => ~DecLt(ladder[i].upper, ladder[i].lower)

(***************************************************************************)
(* Properties of the decimal formatting                                    *)
(***************************************************************************)
\* C10 as stated: whatever the decimal value, the text format_decimal gives
\* for it parses back to a decimal equal to it.
C10_RoundTripAny ==
    pc = "parsed" => dec_band # None /\ DecEq(dec_band, dec_value)

\* C10: a value of at most ten fractional digits other than the sentinel -1
\* parses back to itself; a value of more digits parses back to its rounding
\* to ten places; a value that is or rounds to -1 parses back to none.
C10_RoundTripTenPlaces ==
    pc = "parsed" =>
        /\ (dec_value.s = 0 /\ ~DecEq(dec_value, UNLIMITED_TIER_SENTINEL)) =>
              dec_band # None /\ DecEq(dec_band, dec_value)
        /\ IF DecEq(Quantize10(dec_value), UNLIMITED_TIER_SENTINEL)
           THEN dec_band = None
           ELSE dec_band # None /\ DecEq(dec_band, Quantize10(dec_value))

\* a value with digits in the sixth to tenth place came back as it was
C10_Witness ==
    /\ pc = "parsed"
    /\ dec_value.s = 0
    /\ dec_value.l = 1
    /\ dec_band # None
    /\ DecEq(dec_band, dec_value)

(***************************************************************************)
(* The tiers of a ladder the payload builder reaches                       *)
(***************************************************************************)
\* a tier that ends below its own lower bound
Inverted(tier) == tier.upper # None /\ DecLt(tier.upper, tier.lower)

\* tier i of the ladder is created before tier j: its key (unlimited_flag, lower)
\* is smaller, or the same and it stands earlier in the ladder
CreatedBefore(tiers, i, j) ==
    \/ SortKeyLt(tiers[i], tiers[j])
    \/ ~SortKeyLt(tiers[j], tiers[i]) /\ i < j

\* the tiers of the ladder that end below their start
InvertedIn(tiers) == {i \in DOMAIN tiers : Inverted(tiers[i])}

\* the tiers created before every tier that ends below its start
ReachedIn(tiers) ==
    {i \in DOMAIN tiers :
        /\ ~Inverted(tiers[i])
        /\ \A b \in InvertedIn(tiers) : CreatedBefore(tiers, i, b)}

\* the tiers of the rows that the builder reaches, as (row, tier) places
ReachedPlaces(ladders) == UNION {{<<k, i>> : i \in ReachedIn(ladders[k])} : k \in DOMAIN ladders}

(***************************************************************************)
(* Properties of the pricing payloads of the create flow                   *)
(***************************************************************************)
\* the builder has run for the product group in progress
PayloadsBuilt == pc = "create_pricing" /\ product.contract_rate_id # NoId

\* the ladders of the rows the builder was given, row after row
BuiltLadders ==
    [k \in DOMAIN pricing_driving_rows(product.rows) |->
        build_canonical_tiers_from_row(pricing_driving_rows(product.rows)[k])]

\* how many times a row of the group produced the tier where the builder reaches it
Produced(ladders, tier) ==
    Cardinality({place \in ReachedPlaces(ladders) : ladders[place[1]][place[2]] = tier})

\* the tiers the builder reaches in the rows of the group
TiersOf(ladders) == {ladders[place[1]][place[2]] : place \in ReachedPlaces(ladders)}

InIndex(tier) ==
    IndexHas(product.existing_pricing_index, product.key[2], tier.lower, tier.upper)

\* the payloads emitted for the band of the tier
PayloadsFor(tier) ==
    {k \in DOMAIN product.pricing_payload_entries :
        /\ product.pricing_payload_entries[k].LowerBand = format_decimal(tier.lower)
        /\ product.pricing_payload_entries[k].UpperBand =
               (IF tier.upper = None THEN <<"-", "1">> ELSE format_decimal(tier.upper))}

SkippedFor(tier) ==
    {k \in DOMAIN product.skipped_existing : product.skipped_existing[k] = tier}

C12_PerTier ==
    PayloadsBuilt =>
        \A ladders \in {BuiltLadders} :
            (\E known \in TiersOf(ladders) : InIndex(known)) =>
                \A tier \in TiersOf(ladders) :
                    Cardinality(PayloadsFor(tier)) =
                        (IF InIndex(tier) THEN 0 ELSE Produced(ladders, tier))

\* the band 0..5 is in the index and the unlimited band is not: one skipped
\* record, one payload
C12_Witness ==
    /\ PayloadsBuilt
    /\ Len(product.rows) = 1
    /\ product.rows[1].slots = TwoTierSlots
    /\ InIndex(product.canonical_tiers[1])
    /\ ~InIndex(product.canonical_tiers[2])
    /\ Len(product.skipped_existing) = 1
    /\ Len(product.pricing_payload_entries) = 1
    /\ product.pricing_payload_entries[1].UpperBand = TxtUnlimited

(***************************************************************************)
(* Properties of the remote calls of the create flow                       *)
(***************************************************************************)
\* the create call ended in ApiTimeout
TimedOutCreate(call) == call.kind = "create" /\ call.outcome = "timeout"

\* the same create: the same operation for the same row
SameCreate(a, b) == b.kind = "create" /\ b.op = a.op /\ b.row = a.row

IsWrite(call) == call.kind \in {"create", "update", "delete"}

\* no remote write after the k-th call of the group in progress
NoWriteAfter(k) == \A j \in DOMAIN calls : j > k => ~IsWrite(calls[j])

\* C14: a create call that ended in an ambiguous timeout is followed by a
\* verification query and resolved by it: when the query finds the record the
\* group goes on with the id of the record found, and when it does not the
\* group is abandoned as after a definite failure, with no further remote write.
C14_TimeoutResolved ==
    \A i \in DOMAIN calls :
        (TimedOutCreate(calls[i]) /\ i + 1 \in DOMAIN calls) =>
            /\ calls[i + 1].kind = "query"
            /\ calls[i + 1].outcome = "found" =>
                   /\ calls[i].op = "create_account" => group.account_id # NoId
                   /\ calls[i].op = "create_contract_rate" => product.contract_rate_id # NoId
                   /\ Len(calls) = i + 1 => pc \notin {"groups", "crashed"}
            /\ calls[i + 1].outcome = "empty" => NoWriteAfter(i + 1)

\* a create, update or delete call that failed definitively
DefiniteFailure(call) == IsWrite(call) /\ call.outcome \in {"failed", "error_code"}

\* C15: after a remote write of the group in progress has failed definitively
\* no further remote write is issued for the group, and the run goes on to
\* the next group.
C15_FailureEndsGroup ==
    \A i \in DOMAIN calls :
        DefiniteFailure(calls[i]) =>
            /\ NoWriteAfter(i)
            /\ pc # "crashed"

\* the Pricing create calls of the product group in progress
PricingCreates == {i \in DOMAIN calls : calls[i].op = "create"}

\* C17: the pricing payloads of a (contract rate, currency) group go out in
\* one batched create call: at most one Pricing create call is issued for
\* the group, it carries every payload the builder emitted, it is issued
\* once the group is done if any payload was emitted, and not at all if none was.
C17_OneBatchedCreate ==
    /\ Cardinality(PricingCreates) <= 1
    /\ \A i \in PricingCreates : calls[i].entries = product.pricing_payload_entries
    /\ product.pricing_payload_entries = <<>> => PricingCreates = {}
    /\ (pc = "products" /\ product.pricing_payload_entries # <<>>) => PricingCreates # {}

\* a group whose two payloads went out in one call
C17_Witness ==
    /\ pc = "products"
    /\ \E i \in PricingCreates : Len(calls[i].entries) >= 2

\* the reply to the last query was the not-found error
NotFoundReply == reply.kind = "HTTPError" /\ reply.code = Txt404

\* C20: a query answered with the not-found error ends like a query that
\* returned an empty list, and a query answered with any other error ends
\* with the error raised to its caller.
C20_NotFoundOnly ==
    (reply.kind \in {"HTTPError", "URLError"} /\ calls # <<>>) =>
        calls[Len(calls)].outcome = (IF NotFoundReply THEN "empty" ELSE "failed")

(***************************************************************************)
(* Properties of the quantity change                                       *)
(***************************************************************************)
\* the spellings of the active state
ActiveStatuses ==
    {TxtActive, <<"A", "c", "t", "i", "v", "e">>, <<"a", "c", "t", "i", "v", "e">>}

UpdateIssued == \E i \in DOMAIN calls : calls[i].op = "update_account_product"

\* C16: the quantity update is issued only for an account product whose
\* status is the active state, and the quantity of a remote record whose
\* status is not active is the one it had before the file.
C16_UpdateOnlyActive ==
    /\ UpdateIssued => account_product.Status \in ActiveStatuses
    /\ account_product.Status \notin ActiveStatuses => account_product.Quantity = Txt1Unit

\* the update was sent for an active record and the remote quantity changed
C16_Witness ==
    /\ UpdateIssued
    /\ account_product.Status \in ActiveStatuses
    /\ account_product.Quantity # Txt1Unit

(***************************************************************************)
(* Properties of the choice of the tier encoding                           *)
(***************************************************************************)
\* the row carries a structured encoding: a numbered slot with a cell filled in
HasStructured(row) == \E k \in DOMAIN row.slots : SlotFilled(row.slots[k])

\* the same row without its legacy string
WithoutLegacy(row) == [row EXCEPT !.tiers = <<>>]

\* C18: for a row that carries both a structured encoding and a legacy tier
\* string the canonical ladder is the one of the same row without the legacy
\* string: the legacy string contributes no tier.
C18_StructuredOnly ==
    (pc = "built" /\ HasStructured(pricing_row) /\ pricing_row.tiers # <<>>) =>
        ladder = build_canonical_tiers_from_row(WithoutLegacy(pricing_row))

\* neither encoding of the row yields a tier
NoTierFromRow(row) ==
    /\ parse_structured_pricing_tiers(row) = <<>>
    /\ parse_legacy_pricing_tiers(row.tiers) = <<>>

Two == Dec(FALSE, 2, 0, 0, 0)

NonContiguous(tiers, i) ==
    /\ i > 1
    /\ tiers[i - 1].upper # None
    /\ ~DecEq(tiers[i].lower, AddIncrement(tiers[i - 1].upper))

\* C21: a tier that is non-contiguous with the tier before it, or inverted,
\* truncates the ladder: the canonical ladder holds no such tier, so neither
\* the violating tier nor a tier after it is in the ladder.
C21_TruncatedAtViolation ==
    pc = "built" =>
        \A i \in DOMAIN ladder : ~Inverted(ladder[i]) /\ ~NonContiguous(ladder, i)

\* the cells of a slot that are filled can be read: the rate is there
SlotOk(slot) ==
    /\ slot.rate # <<>> /\ Decimal(slot.rate).ok
    /\ slot.from_qty = <<>> \/ Decimal(slot.from_qty).ok
    /\ slot.to_qty = <<>> \/ Decimal(slot.to_qty).ok

SlotBounded(slot) ==
    slot.to_qty # <<>> /\ ~DecEq(Decimal(slot.to_qty).value, UNLIMITED_TIER_SENTINEL)

\* the slot gives a from-quantity, and its to-quantity is not below it
FromGiven(slot) ==
    /\ slot.from_qty # <<>>
    /\ SlotBounded(slot) => ~DecLt(Decimal(slot.to_qty).value, Decimal(slot.from_qty).value)

\* the slot gives no from-quantity, and its to-quantity is above the upper bound before it
FromChained(slot, previous_upper) ==
    /\ slot.from_qty = <<>>
    /\ SlotBounded(slot) => DecLt(AddIncrement(previous_upper), Decimal(slot.to_qty).value)

\* slot k follows k - 1 bounded tiers read from the slots before it, and its
\* from-quantity is not the expected one
Mismatched(slots, k) ==
    /\ k > 1
    /\ pricing_row.tiers = <<>>
    /\ \A j \in 1..(k - 1) : SlotFilled(slots[j])
    /\ Len(ladder) >= k - 1
    /\ ladder[k - 1].upper # None
    /\ SlotOk(slots[k])
    /\ FromGiven(slots[k])
    /\ ~DecEq(Decimal(slots[k].from_qty).value, AddIncrement(ladder[k - 1].upper))

\* C22: a structured slot whose explicit from-quantity differs from the
\* expected value is kept in the ladder with the from-quantity as given, and
\* the slot after it is parsed.
C22_MismatchKept ==
    pc = "built" =>
        \A k \in DOMAIN pricing_row.slots :
            Mismatched(pricing_row.slots, k) =>
                /\ Len(ladder) >= k
                /\ ladder[k].lower = Decimal(pricing_row.slots[k].from_qty).value
                /\ (/\ SlotBounded(pricing_row.slots[k])
                    /\ k + 1 \in DOMAIN pricing_row.slots
                    /\ SlotOk(pricing_row.slots[k + 1])
                    /\ \/ FromGiven(pricing_row.slots[k + 1])
                       \/ FromChained(pricing_row.slots[k + 1], ladder[k].upper))
                   => Len(ladder) >= k + 1

\* 0..5, then a slot from -2 to 5, then a slot that ends the ladder
C22_Witness ==
    /\ pc = "built"
    /\ Len(pricing_row.slots) = 3
    /\ Mismatched(pricing_row.slots, 2)
    /\ pricing_row.slots[2].from_qty = TxtMinus2
    /\ Len(ladder) = 3
    /\ ladder[2].lower = Dec(TRUE, 2, 0, 0, 0)
    /\ DecEq(ladder[3].lower, AddIncrement(ladder[2].upper))

\* the number of the first slot whose three cells are empty, one past the last slot when there is none
FirstEmptySlot(slots) ==
    CHOOSE k \in 1..(Len(slots) + 1) :
        /\ k \in DOMAIN slots => ~SlotFilled(slots[k])
        /\ \A j \in 1..(k - 1) : SlotFilled(slots[j])

\* the row with the slots before its first empty slot only
BeforeEmptySlot(row) ==
    [row EXCEPT !.slots = SubSeq(row.slots, 1, FirstEmptySlot(row.slots) - 1)]

\* C23: structured parsing stops at the first slot whose three cells are
\* empty: the ladder of a row is the ladder of the row cut before that slot,
\* no slot after it contributes a tier.
C23_StopsAtEmptySlot ==
    pc = "built" => ladder = build_canonical_tiers_from_row(BeforeEmptySlot(pricing_row))

\* the row with the slots before slot k only
BeforeSlot(row, k) == [row EXCEPT !.slots = SubSeq(row.slots, 1, k - 1)]

\* the lower bound of a slot that follows the tiers kept so far
SlotLower(slot, kept) ==
    IF slot.from_qty # <<>> THEN Decimal(slot.from_qty).value
    ELSE IF kept = <<>> THEN Zero
    ELSE Quantize10(AddIncrement(kept[Len(kept)].upper))

\* cells are present, and the rate is missing or unparsable
RateUnusable(slot) == SlotFilled(slot) /\ (slot.rate = <<>> \/ ~Decimal(slot.rate).ok)

\* the to-quantity of the slot is below its from-quantity
EndsBelowStart(slot, kept) ==
    /\ SlotOk(slot)
    /\ SlotBounded(slot)
    /\ DecLt(Decimal(slot.to_qty).value, SlotLower(slot, kept))

\* every slot before slot k gave a bounded tier
AllKept(slots, k, kept) ==
    /\ Len(kept) = k - 1
    /\ \A j \in 1..(k - 1) : SlotFilled(slots[j]) /\ kept[j].upper # None

\* slot k is the first the parser gives up on
Aborting(slots, k, kept) ==
    /\ AllKept(slots, k, kept)
    /\ RateUnusable(slots[k]) \/ EndsBelowStart(slots[k], kept)

\* C24: a slot with cells present but a missing or unparsable rate, or with
\* its to-quantity below its from-quantity, ends the parsing of the row: the
\* ladder is made of the tiers of the slots before it, unchanged, and no
\* later slot adds a tier.
C24_AbortKeepsEarlier ==
    pc = "built" =>
        \A k \in DOMAIN pricing_row.slots :
        \A kept \in {parse_structured_pricing_tiers(BeforeSlot(pricing_row, k))} :
            Aborting(pricing_row.slots, k, kept) => ladder = CanonicalTiers(kept, pricing_row)

\* 0..5, then a slot with the rate x, then a slot that could be read
C24_Witness ==
    /\ pc = "built"
    /\ Len(pricing_row.slots) = 3
    /\ pricing_row.slots[2].rate = TxtX
    /\ SlotOk(pricing_row.slots[3])
    /\ Aborting(pricing_row.slots, 2, <<Tier(Zero, Dec(FALSE, 5, 0, 0, 0), Two)>>)
    /\ ladder = <<Tier(Zero, Dec(FALSE, 5, 0, 0, 0), Two)>>

(***************************************************************************)
(* Properties of the lower bounds of a canonical ladder                    *)
(***************************************************************************)
\* tier k of the ladder was read from slot k, which gives no from-quantity
FromDefaulted(k) ==
    /\ pricing_row.tiers = <<>>
    /\ k \in DOMAIN pricing_row.slots
    /\ \A j \in 1..k : SlotFilled(pricing_row.slots[j]) /\ SlotOk(pricing_row.slots[j])
    /\ pricing_row.slots[k].from_qty = <<>>
    /\ ladder[k].rate = Decimal(pricing_row.slots[k].rate).value

\* at most ten fractional digits
TenPlaces(x) == x.s = 0

Hundred == Dec(FALSE, 100, 0, 0, 0)

EntryOk(entry) ==
    /\ Contains(entry, ":")
    /\ \A sides \in {SplitOnce(entry, IndexOf(entry, ":"))} :
          /\ sides[1] = TxtUnlimited \/ Decimal(sides[1]).ok
          /\ Decimal(sides[2]).ok

\* the row carries the legacy string only, and each of its pairs can be read
LegacyPairs(row) ==
    /\ row.slots = <<>>
    /\ row.tiers # <<>>
    /\ \A entry \in {Split(row.tiers, ";")[k] : k \in DOMAIN Split(row.tiers, ";")} : EntryOk(entry)

ReadablePairs(raw_value) == SelectSeq(Split(raw_value, ";"), EntryOk)

\* the row with the unreadable pairs of its legacy string taken out
WithoutBadPairs(row) == [row EXCEPT !.tiers = Join(ReadablePairs(row.tiers))]

\* the legacy string has a pair without ':' or with a side that is no decimal
HasBadPair(row) ==
    /\ row.slots = <<>>
    /\ row.tiers # <<>>
    /\ Len(ReadablePairs(row.tiers)) < Len(Split(row.tiers, ";"))

\* C27: in legacy parsing a malformed pair, or a pair with an unparsable
\* upper bound or rate, is skipped alone: the ladder is the one of the string
\* without that pair, so the pairs before and after it give their tiers in
\* input order and the lower bounds chain across the gap.
C27_BadPairSkippedAlone ==
    (pc = "built" /\ HasBadPair(pricing_row)) =>
        ladder = CanonicalTiers(<<>>, WithoutBadPairs(pricing_row))

\* a legacy string of three pairs with x, which has no colon, in the middle
C27_Witness ==
    /\ pc = "built"
    /\ HasBadPair(pricing_row)
    /\ Len(Split(pricing_row.tiers, ";")) = 3
    /\ Split(pricing_row.tiers, ";")[2] = TxtX
    /\ Len(ladder) = 2
    /\ ladder[1].upper # None
    /\ DecEq(ladder[2].lower, AddIncrement(ladder[1].upper))

(***************************************************************************)
(* Properties of the payload builder's loop over the rows                  *)
(***************************************************************************)
\* a step of the loop over the rows: one more row is done
RowBuilt == pc = "payload_rows" /\ product'.row_no = product.row_no + 1

\* the payloads the step added for its row
RowEntries ==
    SubSeq(product'.pricing_payload_entries,
           Len(product.pricing_payload_entries) + 1, Len(product'.pricing_payload_entries))

\* the skipped-existing records the step added for its row
RowSkipped ==
    SubSeq(product'.skipped_existing,
           Len(product.skipped_existing) + 1, Len(product'.skipped_existing))

UnlimitedFlag(entry) == IF entry.UpperBand = TxtUnlimited THEN 1 ELSE 0

\* the key (unlimited_flag, lower) of a is not above the key of b
KeyOrdered(a, b) ==
    \/ UnlimitedFlag(a) < UnlimitedFlag(b)
    \/ /\ UnlimitedFlag(a) = UnlimitedFlag(b)
       /\ ~DecLt(Decimal(b.LowerBand).value, Decimal(a.LowerBand).value)

\* C28: the payloads emitted for a row are in ascending order of the key
\* (unlimited_flag, lower): bounded tiers by ascending lower bound, and after
\* all of them the unlimited tier, wherever the tiers stood in the input.
C28_CreationOrder ==
    [][RowBuilt =>
          \A entries \in {RowEntries} :
          \A i, j \in DOMAIN entries : i < j => KeyOrdered(entries[i], entries[j])]_vars

\* the row 0..5, -2..5, unlimited: the payload of the second tier comes first
C28_Witness ==
    /\ pc = "payload_rows"
    /\ product.row_no = 1
    /\ pricing_row.slots = ReorderedSlots
    /\ Len(ladder) = 3
    /\ ladder[2].lower = Dec(TRUE, 2, 0, 0, 0)
    /\ Len(product.pricing_payload_entries) = 3
    /\ product.pricing_payload_entries[1].LowerBand = TxtMinus2
    /\ product.pricing_payload_entries[2].LowerBand = <<"0">>
    /\ product.pricing_payload_entries[3].UpperBand = TxtUnlimited

\* the payload of the tier for a row that takes effect on the day
PayloadOf(tier, effective_date) ==
    PricingEntry(product.contract_rate_id, product.key[2], IsoText(effective_date),
                 IsoText(parse_optional_date(pricing_row'.end_date)), tier)

IsPrefix(s, t) == Len(s) <= Len(t) /\ SubSeq(t, 1, Len(s)) = s

\* C29: a tier whose upper bound is below its lower bound stops the payloads
\* of its row only.  In each step of the loop over the rows the payloads and
\* skipped records built so far are kept, and the row adds one payload or
\* skipped record for each of its tiers created before the tier that ends
\* below its start, and for none of the others; a row without such a tier
\* adds one for each of its tiers, whatever the rows before it held.
C29_StopsRowOnly ==
    [][RowBuilt =>
          /\ IsPrefix(product.pricing_payload_entries, product'.pricing_payload_entries)
          /\ IsPrefix(product.skipped_existing, product'.skipped_existing)
          /\ Len(RowEntries) + Len(RowSkipped) = Cardinality(ReachedIn(ladder'))
          /\ \A i \in ReachedIn(ladder') :
                \/ \E k \in DOMAIN RowSkipped : RowSkipped[k] = ladder'[i]
                \/ \E k \in DOMAIN RowEntries :
                      RowEntries[k] = PayloadOf(ladder'[i],
                          RowEffectiveDate(pricing_row', first_effective_date, Today))]_vars

\* the row 5:1;3:2;-1:2 gave the payload of its first tier only, and the row
\* after it both of its payloads
C29_Witness ==
    /\ pc = "payloads_built"
    /\ product.existing_pricing_index = NoIndex
    /\ Len(product.rows) = 2
    /\ product.rows[1].tiers = DescendingLegacy
    /\ product.rows[2].slots = TwoTierSlots
    /\ Len(product.pricing_payload_entries) = 3
    /\ product.pricing_payload_entries[1].EffectiveDate = IsoCell(1)
    /\ product.pricing_payload_entries[1].UpperBand = Txt5
    /\ product.pricing_payload_entries[2].LowerBand = <<"0">>
    /\ product.pricing_payload_entries[3].UpperBand = TxtUnlimited

(***************************************************************************)
(* Properties of the payloads of the price-change splice                   *)
(***************************************************************************)
\* the splice came to its last step, the create of the new periods
CreateReached == pc = "finished" /\ result \in {"done", "create_failed"}

\* the payloads submitted by the create call of the splice, none without a call
Submitted ==
    IF calls # <<>> /\ calls[Len(calls)].op = "create" THEN calls[Len(calls)].entries ELSE <<>>

\* the ladders of the amendment rows, row after row
AmendmentLadders ==
    [k \in DOMAIN rows_for_group |-> build_canonical_tiers_from_row(rows_for_group[k])]

\* the payload of a tier of an amendment row
AmendmentPayload(row, tier) ==
    PricingEntry(ContractRate, Currency,
                 IsoText(RowEffectiveDate(row, first_effective_date, Today)),
                 IsoText(parse_optional_date(row.end_date)), tier)

\* a period fetched before the splice has the band of the payload
ExistedBefore(entry) == \E p \in existing_pricing : SameBand(p, entry)

\* C30: the reconciler runs the builder without an existing-period index:
\* each tier of each amendment row that the builder accepts yields a
\* create-payload, whether or not a period of the same currency and band
\* existed before the splice, and there are as many payloads as such tiers,
\* so none of them is skipped as existing.
C30_NoDeduplication ==
    CreateReached =>
        \A ladders \in {AmendmentLadders} :
            /\ Len(Submitted) = Cardinality(ReachedPlaces(ladders))
            /\ \A place \in ReachedPlaces(ladders) :
                  \E k \in DOMAIN Submitted :
                      Submitted[k] = AmendmentPayload(rows_for_group[place[1]],
                                                      ladders[place[1]][place[2]])

\* the band 0..5 existed before the splice and is submitted again
C30_Witness ==
    /\ CreateReached
    /\ \E p \in existing_pricing :
          /\ p.CurrencyCode = Currency
          /\ p.LowerBand = <<"0">>
          /\ p.UpperBand = Txt5
    /\ \E k \in DOMAIN Submitted :
          /\ ExistedBefore(Submitted[k])
          /\ Submitted[k].LowerBand = <<"0">>
          /\ Submitted[k].UpperBand = Txt5

(***************************************************************************)
(* Properties of the order of the amendment rows                           *)
(***************************************************************************)
\* the group was taken up: its rows are sorted and held in rows_for_group
GroupTaken == rows_for_group # <<>>

\* the effective date the reconciler reads from a row, DateMax when it reads none
RowKeys == {_sort_key(rows_for_group[k]) : k \in DOMAIN rows_for_group}

\* the create call of the group, when one was issued
CreateCalls == {k \in DOMAIN calls : calls[k].op = "create"}

GroupKey == amendments.groups[amendments.group_no].key

\* a price-change group is in progress or was the last one handled
GroupBegun == amendments.group_no > 0 /\ pc # "quantity_rows"

PriceLookups ==
    {"lookup_account_id_by_name", "lookup_contract_id_by_name", "get_product_id",
     "lookup_contract_rate_id"}

\* the update, delete and create calls on Pricing Periods
PricingOperations == {"update", "delete", "create"}

\* the lookup of the account, the contract, the product or the contract rate
\* found nothing, or the account or product lookup failed and gave None
NotFound ==
    \E k \in DOMAIN calls :
        /\ calls[k].op \in PriceLookups
        /\ \/ calls[k].outcome = "empty"
           \/ /\ calls[k].outcome = "failed"
              /\ calls[k].op \in {"lookup_account_id_by_name", "get_product_id"}

\* the contract was found and the cache holds no id for the product
NotMapped ==
    /\ calls # <<>>
    /\ calls[Len(calls)].op = "lookup_contract_id_by_name"
    /\ calls[Len(calls)].outcome = "found"
    /\ pc # "price_product"
    /\ ProductName \in DOMAIN product_cache
    /\ product_cache[ProductName] = NoId

PreconditionFailed ==
    \/ GroupKey[1] = ""
    \/ GroupKey[2] = <<>>
    \/ NotFound
    \/ NotMapped

\* C32: a price-change group whose currency or CPQ contract id is missing,
\* whose account or contract is not found, whose product is not mapped or
\* which has no contract rate is skipped: no update, delete or create call on
\* Pricing Periods is issued for it and the loop goes on to the next group,
\* so that the run does not end before every group was taken up.
C32_SkippedWithoutCalls ==
    /\ (GroupBegun /\ PreconditionFailed) =>
          /\ result = "skipped"
          /\ pc \in {"price_groups", "amendments_done"}
          /\ \A k \in DOMAIN calls : calls[k].op \notin PricingOperations
    /\ pc = "amendments_done" => amendments.group_no = Len(amendments.groups)

\* the first group had no currency and was skipped; the second group went
\* through with a create
C32_Witness ==
    /\ amendments.group_no = 2
    /\ amendments.groups[1].key[1] = ""
    /\ pc = "finished"
    /\ result = "done"
    /\ \E k \in DOMAIN calls : calls[k].op = "create" /\ calls[k].ok

\* the step issues the quantity update of a row
QuantityUpdateIssued ==
    /\ Len(calls') = Len(calls) + 1
    /\ calls'[Len(calls')].op = "update_account_product"

\* the step issues a shorten, a delete or a create of a price-change group
PriceOperationIssued ==
    /\ Len(calls') = Len(calls) + 1
    /\ calls'[Len(calls')].op \in PricingOperations

InList(row, list) == \E k \in DOMAIN list : list[k] = row

\* the rows flagged for both: quantity and price change
BothRows ==
    {amendments.rows[k] : k \in {j \in DOMAIN amendments.rows :
        Lower(amendments.rows[j].action) = TxtQuantityAndPriceChange}}

\* C33: every quantity update of an amendment file is issued before any
\* shorten, delete or create of a price-change group: when a quantity update
\* is issued no price-change group was begun, and when a price-change
\* operation is issued every quantity row was handled.  A row flagged for
\* both is on the quantity list and in a price-change group, and a run that
\* comes to its end handled every quantity row and every group.
C33_QuantityBeforePrice ==
    [][/\ QuantityUpdateIssued => amendments.group_no = 0
       /\ PriceOperationIssued =>
             /\ amendments.row_no = Len(amendments.quantity_rows)
             /\ pc \notin {"quantity_rows", "update_account_product"}
       /\ pc # "amendments" =>
             \A row \in BothRows :
                 /\ InList(row, amendments.quantity_rows)
                 /\ \E g \in DOMAIN amendments.groups : InList(row, amendments.groups[g].rows)
       /\ pc' = "amendments_done" =>
             /\ amendments'.row_no = Len(amendments'.quantity_rows)
             /\ amendments'.group_no = Len(amendments'.groups)]_vars

\* a row flagged for both changed the remote quantity, and after that its
\* price-change group created its periods
C33_Witness ==
    /\ Len(amendments.rows) = 1
    /\ BothRows # {}
    /\ amendments.row_no = 1
    /\ amendments.group_no = 1
    /\ account_product.Quantity = Txt2
    /\ pc = "finished"
    /\ result = "done"
    /\ \E k \in DOMAIN calls : calls[k].op = "create" /\ calls[k].ok

(***************************************************************************)
(* Properties of the payload of the quantity update                        *)
(***************************************************************************)
QuantityUpdates == {k \in DOMAIN calls : calls[k].op = "update_account_product"}

\* the last call is the contract lookup, and reply is what it was answered
ContractLookedUp ==
    /\ calls # <<>>
    /\ calls[Len(calls)].op = "lookup_contract_id_by_cpq_id"

\* the lookup found the contract
ContractResolved == ContractLookedUp /\ reply.kind = "ok" /\ reply.records # <<>>

\* the row in progress is over: the loop is at its head, or past its last row
RowEnded == pc \in {"quantity_rows", "finished"}

\* C34: the quantity update carries as ContractModificationDate the start
\* date of the contract that lookup_contract_id_by_cpq_id resolved, whether
\* or not it is the effective date of the row, and for a contract without a
\* start date the row ends with the lookup: no update is issued.
C34_ModificationDateIsContractStart ==
    /\ ContractResolved => quantity_change.contract_start_date = reply.records[1].StartDate
    /\ (ContractResolved /\ reply.records[1].StartDate = <<>>) => RowEnded
    /\ \A k \in QuantityUpdates :
          /\ quantity_change.contract_start_date # <<>>
          /\ calls[k].payload.ContractModificationDate = quantity_change.contract_start_date
          /\ \E j \in 1..(k - 1) :
                calls[j].op = "lookup_contract_id_by_cpq_id" /\ calls[j].outcome = "found"

\* an update went out for a contract whose start date is not the effective
\* date of the row
C34_Witness ==
    /\ \E k \in QuantityUpdates :
          /\ calls[k].outcome = "ok"
          /\ calls[k].payload.ContractModificationDate = <<"d">>
    /\ quantity_change.contract_start_date # TxtRowDate
    /\ account_product.Quantity = quantity_change.quantity

(***************************************************************************)
(* Properties of the effective date of the payloads of a row               *)
(***************************************************************************)
\* the date a cell holds when it parses as YYYY-MM-DD, NoDate when it does not
PlainDate(cell) == IF cell.kind = "date" THEN cell.d ELSE NoDate

\* the explicit effective date, else the start date, else the fallback, else today
ResolvedDate(row, fallback_start_date) ==
    IF PlainDate(row.effective_date) # NoDate THEN PlainDate(row.effective_date)
    ELSE IF PlainDate(row.start_date) # NoDate THEN PlainDate(row.start_date)
    ELSE IF fallback_start_date # NoDate THEN fallback_start_date
    ELSE Today

\* C35: the payloads of a row carry one effective date, at midnight UTC: the
\* date of the effective-date cell when it parses, else the date of the
\* start-date cell when it parses, else the fallback date of the caller, else
\* today.
C35_EffectiveDateResolved ==
    [][RowBuilt =>
          \A k \in DOMAIN RowEntries :
              RowEntries[k].EffectiveDate =
                  IsoCell(ResolvedDate(pricing_row', first_effective_date))]_vars

\* a row whose effective-date cell does not parse took the date of its
\* start-date cell for both of its payloads, though the caller gave a fallback
C35_Witness ==
    /\ pc = "payloads_built"
    /\ first_effective_date = 1
    /\ pricing_row.effective_date = BadCell
    /\ pricing_row.start_date = DateCell(2)
    /\ Len(product.pricing_payload_entries) = 2
    /\ \A k \in 1..2 : product.pricing_payload_entries[k].EffectiveDate = IsoCell(2)

(***************************************************************************)
(* Properties of the dates and targets of the price-change splice          *)
(***************************************************************************)
\* the periods the create call of the splice submitted
CreatedEntries == {Submitted[k] : k \in DOMAIN Submitted}

\* C36: every Pricing Period that the splice creates takes effect on
\* firstEffectiveDate or later, whatever the effective-date and start-date
\* cells of the rows of the group hold.
C36_CreatedFromFirstOn ==
    CreateReached =>
        \A entry \in CreatedEntries : EffectiveOf(entry) >= first_effective_date

ShortenCalls == {k \in DOMAIN calls : calls[k].op = "update"}

DeleteCalls == {k \in DOMAIN calls : calls[k].op = "delete"}

\* the period fetched at the start of the splice that has the id
Fetched(id) == {p \in existing_pricing : p.Id = id}

\* C37: in a price-change splice no Pricing Period is both updated and
\* deleted.  The shorten update targets a fetched period that takes effect
\* before firstEffectiveDate, the delete targets fetched periods that take
\* effect on firstEffectiveDate or later, and a group issues at most one
\* shorten update.
C37_ShortenAndDeleteApart ==
    /\ \A k \in ShortenCalls :
          /\ Fetched(calls[k].payload.Id) # {}
          /\ \A p \in Fetched(calls[k].payload.Id) : EffectiveOf(p) < first_effective_date
          /\ \A j \in DeleteCalls : calls[k].payload.Id \notin calls[j].ids
    /\ \A j \in DeleteCalls :
          \A id \in calls[j].ids :
              /\ Fetched(id) # {}
              /\ \A p \in Fetched(id) : EffectiveOf(p) >= first_effective_date
    /\ Cardinality(ShortenCalls) <= 1

\* one fetched period was shortened and another one deleted; besides them a
\* period of the splice date itself was active and is among the deleted ones
C37_Witness ==
    /\ \E k \in ShortenCalls : \E j \in DeleteCalls :
          /\ calls[k].ok
          /\ calls[j].ok
          /\ k < j
    /\ \E p \in existing_pricing : IsActiveAt(p, first_effective_date) /\ EffectiveOf(p) = first_effective_date

(***************************************************************************)
(* Properties of the key of the existing-period index                      *)
(***************************************************************************)
\* the periods of the index found under the key of the tier
FoundFor(tier) ==
    {e \in product.existing_pricing_index.entries :
        IndexHas([product.existing_pricing_index EXCEPT !.entries = {e}],
                 product.key[2], tier.lower, tier.upper)}

\* the payloads the step added for the band of the tier
RowEntriesFor(tier) ==
    {k \in DOMAIN RowEntries :
        /\ RowEntries[k].LowerBand = format_decimal(tier.lower)
        /\ RowEntries[k].UpperBand =
               (IF tier.upper = None THEN TxtUnlimited ELSE format_decimal(tier.upper))}

\* C38: the deduplication lookup keys on (currency, lower, upper) only: a
\* tier whose key is in the existing-period index gets no payload, whatever
\* the rate of the period found and whatever the date of the row, so a row
\* that brings the bands of the index again under a new effective date
\* creates nothing.
C38_KeyedOnBandsOnly ==
    [][RowBuilt /\ product.existing_pricing_index.present =>
          /\ \A i \in DOMAIN ladder' :
                FoundFor(ladder'[i]) # {} => RowEntriesFor(ladder'[i]) = {}
          /\ (ladder' # <<>> /\ \A i \in DOMAIN ladder' : FoundFor(ladder'[i]) # {})
                => product'.pricing_payload_entries = product.pricing_payload_entries]_vars

\* the bands 0..5 and unlimited were given on day 1 and again on day 2, both
\* are in the index, the unlimited one at another rate: four tiers skipped,
\* nothing to create
C38_Witness ==
    /\ pc = "payload_rows"
    /\ product.rows = RedatedRows
    /\ product.row_no = 2
    /\ pricing_row.effective_date = DateCell(2)
    /\ \E i \in DOMAIN ladder : \E e \in FoundFor(ladder[i]) :
          e.entry.Rate # format_decimal(ladder[i].rate)
    /\ \E i \in DOMAIN ladder : \E e \in FoundFor(ladder[i]) :
          e.entry.Rate = format_decimal(ladder[i].rate)
    /\ Len(product.skipped_existing) = 4
    /\ product.pricing_payload_entries = <<>>

(***************************************************************************)
(* Properties of the product cache                                         *)
(***************************************************************************)
\* the create flow is at a call of get_product_id
AtGetProductId == pc \in {"billing_product", "product_lookup"}

\* the product name the call is for
AskedName == IF pc = "billing_product" THEN BillingIdentifierName ELSE product.key[1]

\* the step issues the remote lookup of get_product_id
ProductLookupIssued ==
    /\ Len(calls') = Len(calls) + 1
    /\ calls'[Len(calls')].op = "get_product_id"

\* C39: after configure_product_lookup, which leaves the cache empty,
\* get_product_id issues at most one remote lookup per product name: a
\* lookup is issued only for a name that is not in the cache and puts the
\* name there, with no id when the lookup failed or found nothing; what is
\* in the cache stays as it is; and a call for a name in the cache issues
\* no remote call.
C39_OneLookupPerName ==
    /\ product_cache = EmptyCache
    /\ [][/\ \A n \in DOMAIN product_cache :
                n \in DOMAIN product_cache' /\ product_cache'[n] = product_cache[n]
          /\ ProductLookupIssued =>
                /\ AtGetProductId
                /\ AskedName \notin DOMAIN product_cache
                /\ AskedName \in DOMAIN product_cache'
                /\ (calls'[Len(calls')].outcome # "found") = (product_cache'[AskedName] = NoId)
          /\ (AtGetProductId /\ AskedName \in DOMAIN product_cache) =>
                /\ calls' = calls
                /\ pc' # pc => (pc' = "products") = (product_cache[AskedName] = NoId)]_vars

\* a product group whose name was looked up without success before: the
\* cache answered, the group has no call and the product is skipped; the
\* billing identifier name is in the cache beside it
C39_Witness ==
    /\ pc = "products"
    /\ product.key = <<ProductName, "EUR">>
    /\ <<ProductName, Currency>> \in group.done_keys
    /\ calls = <<>>
    /\ DOMAIN product_cache = {ProductName, BillingIdentifierName}
    /\ product_cache[ProductName] = NoId

====
